---------------------------- MODULE Spec2Model ----------------------------
(***************************************************************************)
(* PPPoE access concentrator bridging PPPoE sessions to serial PPP.        *)
(*                                                                         *)
(* The model follows src/pppoe/ac.py (class AC, class Service) and         *)
(* src/pppoe/serial.py (class SerialService), driven by the event loop of  *)
(* src/pppoe-serial-bridge.py.  One action is one callback of the event    *)
(* loop.  A callback is a sequential program: it is written here as a      *)
(* chain of operators over a record `st' holding the program state the     *)
(* callback reads and writes, the frames it hands to the sockets (st.log)  *)
(* and the exception in flight (st.exc).  A step applied to a record whose *)
(* exc is not "none" does nothing, which is how a Python exception skips   *)
(* the rest of the callback.                                               *)
(***************************************************************************)
EXTENDS Integers, Sequences, FiniteSets, TLC

(***************************************************************************)
(* Program constants                                                       *)
(***************************************************************************)
CODE_PADI == 9
CODE_PADO == 7
CODE_PADR == 25
CODE_PADS == 101
CODE_PADT == 167
PPPOE_DISCOVERY == 34915
PPPOE_SESSION == 34916
VERTYPE == 17
\* first and last session number of the generator's ring (0x0001, 0xffff)
SESSION_MIN == 1
SESSION_MAX == 65535

\* tts: tag names to tag numbers
tts ==
    [End_Of_List |-> 0, Service_Name |-> 257, AC_Name |-> 258,
     Host_Uniq |-> 259, Relay_Session_Id |-> 272,
     Service_Name_Error |-> 513, AC_System_Error |-> 514]

\* ServiceState
IDLE == "IDLE"
DIALING == "DIALING"
CONNECTED == "CONNECTED"

(***************************************************************************)
(* Configuration: the AC's MAC, its name and its list of services, in      *)
(* configuration order: the SerialService of the command line, then an     *)
(* instance of the base class Service, whose connect never fails.          *)
(* Whether the SerialService has a chat script (--chatscript) is the       *)
(* variable chatscript.                                                    *)
(***************************************************************************)
AC_MAC == "00:11:22:33:44:55"
AC_NAME == "myac"
BROADCAST == "ff:ff:ff:ff:ff:ff"

services ==
    << [cls |-> "SerialService", name |-> "svc"],
       [cls |-> "Service", name |-> "null"] >>

SvcIds == DOMAIN services

(***************************************************************************)
(* Bounds of the model                                                     *)
(***************************************************************************)
\* how far the session number generator may walk from FirstStart
MaxWalk == 3

\* the generator's random start, drawn next to the wrap; FirstStart is the
\* number before it
FirstStart == SESSION_MAX - 1
StartIds == {SESSION_MAX}

RingDist(i) == (i - FirstStart) % SESSION_MAX

\* a Service-Name value that is not valid UTF-8
BADUTF8 == "<ff>"

VARIABLES
    sessions,        \* AC.sessions: session id -> index of the service
    svc,             \* per service: the fields of Service / SerialService
    session_number,  \* the generator AC.session_number: [started, i]
    log,             \* what the last callback did, in program order
    loop,            \* "running", "raised" (exception leaving the loop), "exited"
    exc,             \* the exception that left the event loop, or "none"
    event,           \* the event the last callback was called for
    chatscript,      \* TRUE iff the SerialService has a chat script
    ac_api,          \* TRUE iff the AC offers prepare_send_session
    send_api,        \* TRUE iff its send_session takes a buffer and a size
    txfull,          \* TRUE iff a send on a raw socket would block
    hdlc,            \* a sender and a deframer of serial.py on one line
    tagio,           \* a TagSet through tags_to_payload and payload_to_tags
    rx               \* the receive buffer of the AC and the last frame

vars ==
    <<sessions, svc, session_number, log, loop, exc, event, chatscript,
      ac_api, send_api, txfull, hdlc, tagio, rx>>


(***************************************************************************)
(* Values                                                                  *)
(***************************************************************************)
NoTags == [t \in {} |-> <<>>]

\* the Python value None of Service.peer; Service.session_id None is 0 here
\* (the code tests both for truth only, and the generator never yields 0)
None == "None"

IdleService ==
    [state |-> IDLE, ac |-> FALSE, peer |-> None, session_id |-> 0,
     f |-> FALSE, registered |-> FALSE,
     has_ppp_stuff |-> FALSE, has_ppp_unstuff |-> FALSE]

\* a PPP payload: its content and its length in octets
Payload(data, len) == [data |-> data, len |-> len]

NoPayload == Payload("", 0)

\* one entry of the callback's log; an entry sets the fields it needs
E0 ==
    [ev |-> "", sock |-> "", peer |-> None, code |-> 0, sid |-> 0,
     tags |-> NoTags, s |-> 0, info |-> "", table |-> {},
     payload |-> NoPayload]

\* a frame handed to socket.send: info is "sent" or "blocked"
SendEv(sock, peer, code, sid, tags, payload, info) ==
    [E0 EXCEPT !.ev = "send", !.sock = sock, !.peer = peer, !.code = code,
               !.sid = sid, !.tags = tags, !.payload = payload,
               !.info = info]

Ok(st) == st.exc = "none"

Raise(st, e) == IF Ok(st) THEN [st EXCEPT !.exc = e] ELSE st

Emit(st, e) == IF Ok(st) THEN [st EXCEPT !.log = Append(@, e)] ELSE st

\* dict update d[k] = v and del d[k]
DictSet(d, k, v) == [x \in DOMAIN d \cup {k} |-> IF x = k THEN v ELSE d[x]]

DictDel(d, k) == [x \in DOMAIN d \ {k} |-> d[x]]

(***************************************************************************)
(* AC._session_number_generator and next(self.session_number)              *)
(***************************************************************************)
\* i += 1; if i > 0xffff: i = 0x0001
Advance(i) == IF i + 1 > SESSION_MAX THEN SESSION_MIN ELSE i + 1

\* the while loop from candidate i on: yield the first i not in the table
\* faulty variant: the membership test of the generator left out
WalkNoTest(i, table) == i

RECURSIVE Walk(_, _)
Walk(i, table) == IF i \notin table THEN i ELSE Walk(Advance(i), table)

\* next(): the first call starts at the random number, a later one resumes
\* after the yield
NextSessionNumber(gen, table) ==
    Walk(IF gen.started THEN Advance(gen.i) ELSE gen.i, table)

next_session_number(st) ==
    IF ~Ok(st) THEN st
    ELSE LET n == NextSessionNumber(st.gen, DOMAIN st.sessions)
         IN  [Emit(st, [E0 EXCEPT !.ev = "alloc", !.sid = n,
                                  !.table = DOMAIN st.sessions])
               EXCEPT !.gen = [started |-> TRUE, i |-> n], !.ret = n]

(***************************************************************************)
(* AC.send_discovery, AC.send_session: the frame handed to the socket.     *)
(* socket.send raises BlockingIOError when the socket would block.         *)
(***************************************************************************)
send_discovery(st, peer, code, session_id, tags) ==
    IF ~Ok(st) THEN st
    ELSE IF txfull
         THEN Raise(Emit(st, SendEv("discovery", peer, code, session_id,
                                    tags, NoPayload, "blocked")),
                    "BlockingIOError")
         ELSE Emit(st, SendEv("discovery", peer, code, session_id, tags,
                              NoPayload, "sent"))

(***************************************************************************)
(* Service.connect / Service.disconnect (base class)                       *)
(***************************************************************************)
Service_connect(st, s, peer, session_id) ==
    IF ~Ok(st) THEN st
    ELSE [st EXCEPT !.svc[s].ac = TRUE,
                    !.svc[s].session_id = session_id,
                    !.svc[s].peer = peer,
                    !.svc[s].state = CONNECTED]

\* faulty variant: disconnect forgets to clear the peer
Service_disconnect_keeps_peer(st, s) ==
    IF ~Ok(st) THEN st
    ELSE [st EXCEPT !.svc[s].ac = FALSE,
                    !.svc[s].session_id = 0,
                    !.svc[s].state = IDLE]

Service_disconnect(st, s) ==
    IF ~Ok(st) THEN st
    ELSE [st EXCEPT !.svc[s].ac = FALSE,
                    !.svc[s].session_id = 0,
                    !.svc[s].peer = None,
                    !.svc[s].state = IDLE]


(***************************************************************************)
(* SerialService.connect / SerialService.disconnect.                       *)
(*   open_ok: serial.Serial(port) opens the device                         *)
(*   chat_rc: the exit status of /usr/sbin/chat                            *)
(***************************************************************************)
\* del self.ppp_stuff, self.ppp_unstuff: deleting an attribute the object
\* does not have raises AttributeError; the targets go left to right
del_framers(st, s) ==
    IF ~Ok(st) THEN st
    ELSE IF ~st.svc[s].has_ppp_stuff THEN Raise(st, "AttributeError")
    ELSE IF ~st.svc[s].has_ppp_unstuff
         THEN Raise([st EXCEPT !.svc[s].has_ppp_stuff = FALSE],
                    "AttributeError")
    ELSE [st EXCEPT !.svc[s].has_ppp_stuff = FALSE,
                    !.svc[s].has_ppp_unstuff = FALSE]

\* if self._f: self.sel.unregister(self._f); self._f.close()
\* self._f = None
close_f(st, s) ==
    IF ~Ok(st) THEN st
    ELSE [st EXCEPT !.svc[s].registered = IF st.svc[s].f THEN FALSE ELSE @,
                    !.svc[s].f = FALSE]

SerialService_disconnect(st, s) ==
    close_f(del_framers(Service_disconnect(st, s), s), s)

\* AC.prepare_send_session(inbuf) as serial.py calls it: the view of inbuf
\* the deframer assembles frames in.  It changes no state of the AC.
prepare_send_session(st) == st

\* self.ppp_stuff = ppp_stuff(...)
\* self.ppp_unstuff = ppp_unstuff(ac.prepare_send_session(self.inbuf), ...)
\* class AC of ac.py has no attribute prepare_send_session: looking it up
\* raises AttributeError, after self.ppp_stuff has been set (~ac_api)
make_framers(st, s) ==
    IF ~Ok(st) THEN st
    ELSE LET st1 == [st EXCEPT !.svc[s].has_ppp_stuff = TRUE]
             st2 == IF ac_api THEN prepare_send_session(st1)
                    ELSE Raise(st1, "AttributeError")
         IN  IF Ok(st2) THEN [st2 EXCEPT !.svc[s].has_ppp_unstuff = TRUE]
             ELSE st2

\* faulty variant: the exit status of the chat program is not looked at
run_chat_ignores_status(st, s, chat_rc) ==
    IF ~Ok(st) \/ ~chatscript THEN st
    ELSE Emit(st, [E0 EXCEPT !.ev = "chat", !.s = s, !.code = chat_rc])

\* the chat script phase: on a non-zero exit status self.disconnect() and
\* raise ServiceFailure
run_chat(st, s, chat_rc) ==
    IF ~Ok(st) \/ ~chatscript THEN st
    ELSE LET st1 == Emit(st, [E0 EXCEPT !.ev = "chat", !.s = s,
                                        !.code = chat_rc])
         IN  IF chat_rc # 0
             THEN LET st2 == SerialService_disconnect(st1, s)
                  IN  IF Ok(st2)
                      THEN [Raise(st2, "ServiceFailure")
                              EXCEPT !.msg = "Chatscript failed"]
                      ELSE st2
             ELSE st1

SerialService_connect(st, s, peer, session_id, open_ok, chat_rc) ==
    IF ~Ok(st) THEN st
    ELSE LET st1 == Emit(Service_connect(st, s, peer, session_id),
                         [E0 EXCEPT !.ev = "open", !.s = s,
                                    !.info = IF open_ok THEN "opened"
                                             ELSE "SerialException"])
         IN  IF ~open_ok
             THEN [Raise(Service_disconnect(st1, s), "ServiceFailure")
                     EXCEPT !.msg = "Failed to open modem"]
             ELSE LET st2 == [st1 EXCEPT !.svc[s].f = TRUE,
                                         !.svc[s].registered = TRUE]
                  IN  make_framers(run_chat(st2, s, chat_rc), s)

\* service.connect(...) and service.disconnect() as the AC calls them
connect(st, s, peer, session_id, open_ok, chat_rc) ==
    LET st1 == Emit(st, [E0 EXCEPT !.ev = "connect", !.s = s, !.peer = peer,
                                   !.sid = session_id])
    IN  IF services[s].cls = "SerialService"
        THEN SerialService_connect(st1, s, peer, session_id, open_ok, chat_rc)
        ELSE Service_connect(st1, s, peer, session_id)

\* the log entry is written as the call returns and holds the state the
\* service is left in
disconnect(st, s) ==
    LET st1 == IF services[s].cls = "SerialService"
               THEN SerialService_disconnect(st, s)
               ELSE Service_disconnect(st, s)
    IN  Emit(st1, [E0 EXCEPT !.ev = "disconnect", !.s = s,
                             !.info = st1.svc[s].state])

\* del self.sessions[session_id]: KeyError when the key is absent
del_session(st, session_id) ==
    IF ~Ok(st) THEN st
    ELSE IF session_id \notin DOMAIN st.sessions THEN Raise(st, "KeyError")
    ELSE [Emit(st, [E0 EXCEPT !.ev = "del", !.sid = session_id])
            EXCEPT !.sessions = DictDel(st.sessions, session_id)]


(***************************************************************************)
(* AC.handle_padi                                                          *)
(***************************************************************************)
\* bytes.decode(utf8) raises UnicodeDecodeError on bytes that are not UTF-8
Decodes(v) == v # BADUTF8

\* faulty variant: only Host-Uniq is copied to the reply
CopyTags_host_uniq_only(rtags, tags) ==
    LET cts == {tts.Host_Uniq} \cap DOMAIN tags
    IN  [t \in DOMAIN rtags \cup cts |->
            IF t \in cts THEN tags[t] ELSE rtags[t]]

\* for ct in ('Host-Uniq', 'Relay-Session-Id'):
\*     if tts[ct] in tags: rtags[tts[ct]] = tags[tts[ct]]
CopyTags(rtags, tags) ==
    LET cts == {tts.Host_Uniq, tts.Relay_Session_Id} \cap DOMAIN tags
    IN  [t \in DOMAIN rtags \cup cts |->
            IF t \in cts THEN tags[t] ELSE rtags[t]]

\* {x.name for x in self.services}
available_services == {services[s].name : s \in SvcIds}

\* the orders in which a Python set of names may be iterated
SetOrders(S) ==
    {o \in [1..Cardinality(S) -> S] : \A n \in S : \E k \in DOMAIN o : o[k] = n}

\* order: the iteration order of the set available_services
handle_padi(st, peer, tags, order) ==
    IF tts.Service_Name \notin DOMAIN tags THEN st
    ELSE LET sns == tags[tts.Service_Name]
         IN  IF Len(sns) # 1 THEN st
             ELSE IF ~Decodes(sns[1]) THEN st
             ELSE LET requested_service == sns[1]
                  IN  IF requested_service = ""
                         \/ requested_service \in available_services
                      THEN LET rtags ==
                                 [t \in {tts.Service_Name, tts.AC_Name} |->
                                    IF t = tts.Service_Name THEN order
                                    ELSE <<AC_NAME>>]
                           IN  send_discovery(st, peer, CODE_PADO, 0,
                                              CopyTags(rtags, tags))
                      ELSE st

(***************************************************************************)
(* AC.handle_padr                                                          *)
(***************************************************************************)
\* faulty variant: the requested name is not compared with the services' names
Candidates_any_name(requested_service) == SvcIds

\* the candidate services, in configuration order
Candidates(requested_service) ==
    IF requested_service # ""
    THEN {s \in SvcIds : services[s].name = requested_service}
    ELSE SvcIds

\* service = services[0]
FirstOf(S) == CHOOSE s \in S : \A t \in S : s <= t

\* faulty variant: the takeover tells the displaced peer nothing
takeover_without_padt(st, s) ==
    IF st.svc[s].state = IDLE THEN st
    ELSE disconnect(del_session(st, st.svc[s].session_id), s)

\* faulty variant: the takeover leaves the old entry in the table
takeover_keeps_entry(st, s) ==
    IF st.svc[s].state = IDLE THEN st
    ELSE disconnect(send_discovery(st, st.svc[s].peer, CODE_PADT,
                                   st.svc[s].session_id, NoTags), s)

\* if service.state != ServiceState.IDLE: PADT to the bound peer, remove the
\* table entry, disconnect
takeover(st, s) ==
    IF st.svc[s].state = IDLE THEN st
    ELSE IF st.svc[s].session_id = 0 \/ st.svc[s].peer = None
         THEN Raise(st, "AssertionError")
    ELSE LET st1 == send_discovery(st, st.svc[s].peer, CODE_PADT,
                                   st.svc[s].session_id, NoTags)
             st2 == del_session(st1, st.svc[s].session_id)
         IN  disconnect(st2, s)

handle_padr(st, peer, tags, open_ok, chat_rc) ==
    IF tts.Service_Name \notin DOMAIN tags THEN st
    ELSE LET sns == tags[tts.Service_Name]
         IN
         IF Len(sns) # 1 THEN st
         ELSE IF ~Decodes(sns[1]) THEN st
         ELSE IF Candidates(sns[1]) = {}
              THEN send_discovery(st, peer, CODE_PADS, 0,
                     CopyTags([t \in {tts.Service_Name_Error} |->
                                 <<"Requested service does not exist">>],
                              tags))
         ELSE LET s == FirstOf(Candidates(sns[1]))
                  rtags == CopyTags([t \in {tts.Service_Name} |->
                                        <<services[s].name>>], tags)
                  st1 == takeover(st, s)
                  st2 == next_session_number(st1)
                  session_id == st2.ret
                  st3 == connect(st2, s, peer, session_id, open_ok, chat_rc)
              IN  IF st3.exc = "ServiceFailure"
                  THEN \* except ServiceFailure as sf:
                       send_discovery([st3 EXCEPT !.exc = "none"], peer,
                                      CODE_PADS, 0,
                                      DictSet(rtags, tts.AC_System_Error,
                                              <<st3.msg>>))
                  ELSE IF ~Ok(st3) THEN st3
                  ELSE send_discovery(
                           [st3 EXCEPT !.sessions =
                                DictSet(st3.sessions, session_id, s)],
                           peer, CODE_PADS, session_id, rtags)

(***************************************************************************)
(* AC.handle_padt                                                          *)
(***************************************************************************)
\* faulty variant: the entry is removed, the service is not disconnected
handle_padt_no_disconnect(st, peer, session_id, tags) ==
    IF session_id \in DOMAIN st.sessions
    THEN del_session(st, session_id)
    ELSE st

\* faulty variant: a PADT for an unknown session is answered with a PADT
handle_padt_answers_unknown(st, peer, session_id, tags) ==
    IF session_id \in DOMAIN st.sessions
    THEN del_session(disconnect(st, st.sessions[session_id]), session_id)
    ELSE send_discovery(st, peer, CODE_PADT, session_id, NoTags)

\* faulty variant: the service is disconnected, its entry stays in the table
handle_padt_keeps_entry(st, peer, session_id, tags) ==
    IF session_id \in DOMAIN st.sessions
    THEN disconnect(st, st.sessions[session_id])
    ELSE st

\* faulty variant: only the peer of the session may end it
handle_padt_checks_peer(st, peer, session_id, tags) ==
    IF session_id \in DOMAIN st.sessions
       /\ st.svc[st.sessions[session_id]].peer = peer
    THEN del_session(disconnect(st, st.sessions[session_id]), session_id)
    ELSE st

handle_padt(st, peer, session_id, tags) ==
    IF session_id \in DOMAIN st.sessions
    THEN del_session(disconnect(st, st.sessions[session_id]), session_id)
    ELSE st

(***************************************************************************)
(* AC.read_discovery.  A frame is the record of what recv_into and the     *)
(* header unpack deliver:                                                  *)
(*   short     the frame is shorter than the Ethernet + PPPoE header       *)
(*   fits      the declared payload length is within the payload view      *)
(*   parses    payload_to_tags accepts the payload (no ValueError)         *)
(*   tags      the tags payload_to_tags returns                            *)
(***************************************************************************)
\* faulty variant: a payload payload_to_tags rejects is handled as one
\* without tags
read_discovery_ignores_valueerror(st, fr, order, open_ok, chat_rc) ==
    IF fr.short THEN st
    ELSE IF fr.etype # PPPOE_DISCOVERY THEN st
    ELSE IF fr.vt # VERTYPE THEN st
    ELSE IF ~fr.fits THEN st
    ELSE IF fr.code = CODE_PADI
         THEN IF fr.session_id # 0 THEN st
              ELSE handle_padi(st, fr.src, fr.tags, order)
    ELSE IF fr.code = CODE_PADR
         THEN IF fr.dest # AC_MAC THEN st
              ELSE IF fr.session_id # 0 THEN st
              ELSE handle_padr(st, fr.src, fr.tags, open_ok, chat_rc)
    ELSE IF fr.code = CODE_PADT
         THEN IF fr.session_id = 0 THEN st
              ELSE handle_padt(st, fr.src, fr.session_id, fr.tags)
    ELSE st

read_discovery(st, fr, order, open_ok, chat_rc) ==
    IF fr.short THEN st
    ELSE IF fr.etype # PPPOE_DISCOVERY THEN st
    ELSE IF fr.vt # VERTYPE THEN st
    ELSE IF ~fr.fits THEN st
    ELSE IF ~fr.parses THEN st
    ELSE IF fr.code = CODE_PADI
         THEN IF fr.session_id # 0 THEN st
              ELSE handle_padi(st, fr.src, fr.tags, order)
    ELSE IF fr.code = CODE_PADR
         THEN IF fr.dest # AC_MAC THEN st
              ELSE IF fr.session_id # 0 THEN st
              ELSE handle_padr(st, fr.src, fr.tags, open_ok, chat_rc)
    ELSE IF fr.code = CODE_PADT
         THEN IF fr.session_id = 0 THEN st
              ELSE handle_padt(st, fr.src, fr.session_id, fr.tags)
    ELSE st


(***************************************************************************)
(* AC.send_session, AC.read_session, Service.process_session_payload       *)
(***************************************************************************)
MTU == 1500

send_session(st, peer, session_id, payload) ==
    IF ~Ok(st) THEN st
    ELSE IF payload.len > MTU THEN st
    ELSE IF txfull
         THEN Raise(Emit(st, SendEv("session", peer, 0, session_id, NoTags,
                                    payload, "blocked")),
                    "BlockingIOError")
         ELSE Emit(st, SendEv("session", peer, 0, session_id, NoTags,
                              payload, "sent"))

\* SerialService.process_session_payload: frame the payload and write it
\* once; would_block: os.write raises BlockingIOError, which is swallowed
SerialService_process_session_payload(st, s, payload, would_block) ==
    IF ~Ok(st) THEN st
    ELSE IF ~st.svc[s].f THEN Raise(st, "AssertionError")
    ELSE IF ~st.svc[s].has_ppp_stuff THEN Raise(st, "AttributeError")
    ELSE Emit(st, [E0 EXCEPT !.ev = "write", !.sock = "serial", !.s = s,
                             !.payload = payload,
                             !.info = IF would_block THEN "dropped"
                                      ELSE "written"])

\* faulty variant: a write that would block ends the session
process_session_payload_ends_session(st, s, payload, would_block) ==
    LET st1 == IF services[s].cls = "SerialService"
               THEN SerialService_process_session_payload(st, s, payload,
                                                          would_block)
               ELSE st
    IN  IF would_block THEN del_session(st1, st.svc[s].session_id) ELSE st1

process_session_payload(st, s, payload, would_block) ==
    IF services[s].cls = "SerialService"
    THEN SerialService_process_session_payload(st, s, payload, would_block)
    ELSE st

\* faulty variant: the PADT for an unknown session goes to the frame's
\* destination address
read_session_padt_to_dest(st, fr, would_block) ==
    IF fr.short THEN st
    ELSE IF fr.etype # PPPOE_SESSION THEN st
    ELSE IF fr.vt # VERTYPE THEN st
    ELSE IF fr.code # 0 THEN st
    ELSE IF ~fr.fits THEN st
    ELSE IF fr.session_id \in DOMAIN st.sessions
         THEN process_session_payload(st, st.sessions[fr.session_id],
                                      fr.payload, would_block)
    ELSE send_discovery(st, fr.dest, CODE_PADT, fr.session_id, NoTags)

read_session(st, fr, would_block) ==
    IF fr.short THEN st
    ELSE IF fr.etype # PPPOE_SESSION THEN st
    ELSE IF fr.vt # VERTYPE THEN st
    ELSE IF fr.code # 0 THEN st
    ELSE IF ~fr.fits THEN st
    ELSE IF fr.session_id \in DOMAIN st.sessions
         THEN process_session_payload(st, st.sessions[fr.session_id],
                                      fr.payload, would_block)
    ELSE send_discovery(st, fr.src, CODE_PADT, fr.session_id, NoTags)

(***************************************************************************)
(* AC.close_session, AC.shutdown                                           *)
(***************************************************************************)
close_session(st, peer, session_id, error_message) ==
    IF ~Ok(st) THEN st
    ELSE LET st1 == IF session_id \in DOMAIN st.sessions
                    THEN del_session(st, session_id) ELSE st
             tags == IF error_message # ""
                     THEN [t \in {tts.AC_System_Error} |-> <<error_message>>]
                     ELSE NoTags
         IN  send_discovery(st1, peer, CODE_PADT, session_id, tags)

\* for session_id, service in list(self.sessions.items()): ...
\* items: the (session id, service) pairs of the table as the loop starts,
\* in the order the dict holds them
\* faulty variant: the loop stops after the first session
shutdown_first_only(st, items, message) ==
    IF items = <<>> \/ ~Ok(st) THEN st
    ELSE LET session_id == Head(items)[1]
             service == st.svc[Head(items)[2]]
         IN  IF service.peer = None \/ service.session_id = 0 THEN st
             ELSE close_session(st, service.peer, session_id, message)

RECURSIVE shutdown(_, _, _)
shutdown(st, items, message) ==
    IF items = <<>> \/ ~Ok(st) THEN st
    ELSE LET session_id == Head(items)[1]
             service == st.svc[Head(items)[2]]
         IN  IF service.peer = None \/ service.session_id = 0
             THEN shutdown(st, Tail(items), message)
             ELSE shutdown(close_session(st, service.peer, session_id,
                                         message),
                           Tail(items), message)

(***************************************************************************)
(* SerialService.read_from_modem, SerialService.send_frame.                *)
(* rawdata is what os.read returns: n, the number of octets read, and      *)
(* frames, the payloads of the complete valid frames the deframer finds    *)
(* in them.  n = 0 is the empty read of a device that went away.           *)
(***************************************************************************)
\* self.ac.send_session(self.peer, self.session_id, self.inbuf, frame_size):
\* four arguments, which send_session of ac.py does not take (TypeError)
send_frame(st, s, payload) ==
    IF ~Ok(st) THEN st
    ELSE IF ~st.svc[s].ac \/ st.svc[s].peer = None
            \/ st.svc[s].session_id = 0
         THEN Raise(st, "AssertionError")
    ELSE IF ~send_api THEN Raise(st, "TypeError")
    ELSE send_session(st, st.svc[s].peer, st.svc[s].session_id, payload)

\* faulty variant: the frames of one read are handed on last first
RECURSIVE ppp_unstuff_process_last_first(_, _, _)
ppp_unstuff_process_last_first(st, s, frames) ==
    IF frames = <<>> \/ ~Ok(st) THEN st
    ELSE ppp_unstuff_process_last_first(
             send_frame(st, s, frames[Len(frames)]), s,
             SubSeq(frames, 1, Len(frames) - 1))

RECURSIVE ppp_unstuff_process(_, _, _)
ppp_unstuff_process(st, s, frames) ==
    IF frames = <<>> \/ ~Ok(st) THEN st
    ELSE ppp_unstuff_process(send_frame(st, s, Head(frames)), s,
                             Tail(frames))

\* faulty variant: the empty read closes the session and leaves the
\* service as it is
read_from_modem_keeps_service(st, s, rawdata) ==
    IF ~st.svc[s].f \/ ~st.svc[s].ac \/ st.svc[s].peer = None
       \/ st.svc[s].session_id = 0
    THEN Raise(st, "AssertionError")
    ELSE IF rawdata.n = 0
         THEN close_session(st, st.svc[s].peer, st.svc[s].session_id,
                            "Modem disconnected")
    ELSE IF ~st.svc[s].has_ppp_unstuff THEN Raise(st, "AttributeError")
    ELSE ppp_unstuff_process(st, s, rawdata.frames)

read_from_modem(st, s, rawdata) ==
    IF ~st.svc[s].f \/ ~st.svc[s].ac \/ st.svc[s].peer = None
       \/ st.svc[s].session_id = 0
    THEN Raise(st, "AssertionError")
    ELSE IF rawdata.n = 0
         THEN disconnect(close_session(st, st.svc[s].peer,
                                       st.svc[s].session_id,
                                       "Modem disconnected"), s)
    ELSE IF ~st.svc[s].has_ppp_unstuff THEN Raise(st, "AttributeError")
    ELSE ppp_unstuff_process(st, s, rawdata.frames)


(***************************************************************************)
(* The receive buffer of the AC: self.buf, shared by read_discovery and    *)
(* read_session, and the payload view self.buf_mem[eth_header.size:] that  *)
(* both take of it.  The header is kept as the fields it unpacks to; buf   *)
(* is the part of the buffer behind the header.                            *)
(***************************************************************************)
\* len(self.buf_mem[self.eth_header.size:]): 2048 - 20 octets in the AC, a
\* few octets in the model
RxCap == 3

\* self.buf = bytearray(2048): all zero
NewBuf == [k \in 1..RxCap |-> 0]

\* recv_into(self.buf): the octets of the frame replace the first octets of
\* the buffer, the others stay
recv_into(buf, data) == data \o SubSeq(buf, Len(data) + 1, Len(buf))

\* payload = self.buf_mem[self.eth_header.size:]
\* if len(payload) < payload_length: return
\* payload = payload[:payload_length]
payload_view(buf, framesize, payload_length) ==
    IF Len(buf) < payload_length THEN [dropped |-> TRUE, payload |-> <<>>]
    ELSE [dropped |-> FALSE, payload |-> SubSeq(buf, 1, payload_length)]

\* the buffer, the last frame received (its socket, the octets behind its
\* header, its declared payload length) and what the handler did with it:
\* dropped it, or took payload as the octets to parse or to deliver
RxIdle ==
    [buf |-> NewBuf, sock |-> "none", data |-> <<>>, payload_length |-> 0,
     dropped |-> FALSE, payload |-> <<>>]

(***************************************************************************)
(* The tag codec of ac.py: tags_to_payload and payload_to_tags, octet by   *)
(* octet.  A TagSet is a function from tag types to lists of values, a     *)
(* value a sequence of octets; a dict keeps its keys in insertion order,   *)
(* which is the parameter order.                                           *)
(***************************************************************************)
\* tag_header.pack(tag_type, length): struct "!HH", big-endian
tag_header_pack(tag_type, length) ==
    <<tag_type \div 256, tag_type % 256, length \div 256, length % 256>>

tag_to_payload(tag_type, value) ==
    tag_header_pack(tag_type, Len(value)) \o value

\* flatten(tags): the (tag_type, value) pairs, key by key
RECURSIVE flatten(_, _)
flatten(tags, order) ==
    IF order = <<>> THEN <<>>
    ELSE [k \in DOMAIN tags[Head(order)] |->
             <<Head(order), tags[Head(order)][k]>>]
         \o flatten(tags, Tail(order))

RECURSIVE join_tags(_)
join_tags(pairs) ==
    IF pairs = <<>> THEN <<>>
    ELSE tag_to_payload(Head(pairs)[1], Head(pairs)[2])
         \o join_tags(Tail(pairs))

tags_to_payload(tags, order) == join_tags(flatten(tags, order))

\* parse_payload: the (tag_type, value) pairs it yields, or ValueError
RECURSIVE parse_payload(_, _)
parse_payload(payload, yielded) ==
    IF Len(payload) = 0 THEN [err |-> FALSE, pairs |-> yielded]
    ELSE IF Len(payload) < 4 THEN [err |-> TRUE, pairs |-> yielded]
    ELSE LET tag_type == payload[1] * 256 + payload[2]
             value_size == payload[3] * 256 + payload[4]
             rest == SubSeq(payload, 5, Len(payload))
         IN  IF Len(rest) < value_size
             THEN [err |-> TRUE, pairs |-> yielded]
             ELSE LET value == SubSeq(rest, 1, value_size)
                      after == SubSeq(rest, value_size + 1, Len(rest))
                  IN  IF tag_type = 0
                      THEN [err |-> value_size # 0, pairs |-> yielded]
                      ELSE parse_payload(after,
                                         Append(yielded, <<tag_type, value>>))

\* tags.setdefault(tag_type, list()).append(value)
RECURSIVE setdefault_append(_, _)
setdefault_append(tags, pairs) ==
    IF pairs = <<>> THEN tags
    ELSE LET t == Head(pairs)[1]
             v == Head(pairs)[2]
         IN  setdefault_append(
                 [x \in DOMAIN tags \cup {t} |->
                     IF x = t
                     THEN IF t \in DOMAIN tags THEN Append(tags[t], v)
                          ELSE <<v>>
                     ELSE tags[x]],
                 Tail(pairs))

\* faulty variant: a later value of a type replaces the earlier ones
payload_to_tags_keeps_last(payload) ==
    LET r == parse_payload(payload, <<>>)
    IN  IF r.err THEN [err |-> TRUE, tags |-> NoTags]
        ELSE [err |-> FALSE,
              tags |-> [t \in {r.pairs[k][1] : k \in DOMAIN r.pairs} |->
                          LET ks == {k \in DOMAIN r.pairs : r.pairs[k][1] = t}
                              last == CHOOSE k \in ks : \A j \in ks : j <= k
                          IN  <<r.pairs[last][2]>>]]

\* payload_to_tags: the dict, or ValueError (err)
payload_to_tags(payload) ==
    LET r == parse_payload(payload, <<>>)
    IN  IF r.err THEN [err |-> TRUE, tags |-> NoTags]
        ELSE [err |-> FALSE, tags |-> setdefault_append(NoTags, r.pairs)]

TagIdle ==
    [encoded |-> FALSE, decoded |-> FALSE, T |-> NoTags, payload |-> <<>>,
     err |-> FALSE, tags |-> NoTags]

(***************************************************************************)
(* The serial framer of serial.py: ppp_stuff (sender) and ppp_unstuff      *)
(* (deframer), octet by octet, with the FCS-16 of RFC 1662                 *)
(***************************************************************************)
ppp_flag_byte == 126
ppp_escape_code == 125
ppp_hdlc_header == <<255, 3>>
ppp_bytes_to_stuff == {ppp_flag_byte, ppp_escape_code}
FCS16_INIT == 65535
FCS16_GOOD == 61624

\* a ^ b on naturals
RECURSIVE Xor(_, _)
Xor(a, b) ==
    IF a = 0 THEN b
    ELSE IF b = 0 THEN a
    ELSE ((a + b) % 2) + 2 * Xor(a \div 2, b \div 2)

\* for _ in range(8): b = (b >> 1) ^ 0x8408 if b & 1 else (b >> 1)
RECURSIVE gen_fcs16(_, _)
gen_fcs16(b, n) ==
    IF n = 0 THEN b
    ELSE gen_fcs16(IF b % 2 = 1 THEN Xor(b \div 2, 33800) ELSE b \div 2,
                   n - 1)

ppp_fcs16tab == [b \in 0..255 |-> gen_fcs16(b, 8)]

\* fcs = (fcs >> 8) ^ ppp_fcs16tab[(fcs ^ b) & 0xff]
fcs16(fcs, b) == Xor(fcs \div 256, ppp_fcs16tab[Xor(fcs, b) % 256])

\* stuff(b): the octets written to buf for b
stuff(b) ==
    IF b \in ppp_bytes_to_stuff THEN <<ppp_escape_code, Xor(b, 32)>>
    ELSE <<b>>

RECURSIVE stuff_all(_)
stuff_all(bs) ==
    IF bs = <<>> THEN <<>> ELSE stuff(Head(bs)) \o stuff_all(Tail(bs))

RECURSIVE fcs16_all(_, _)
fcs16_all(fcs, bs) ==
    IF bs = <<>> THEN fcs ELSE fcs16_all(fcs16(fcs, Head(bs)), Tail(bs))

\* faulty variant: the FCS octets are written without byte stuffing
ppp_stuff_process_raw_fcs(input) ==
    LET fcs == Xor(fcs16_all(FCS16_INIT, ppp_hdlc_header \o input),
                   FCS16_INIT)
    IN  <<ppp_flag_byte>>
        \o stuff_all(ppp_hdlc_header) \o stuff_all(input)
        \o <<fcs % 256, fcs \div 256>>
        \o <<ppp_flag_byte>>

\* ppp_stuff.process(input): the octets buf[:i] it leaves in the buffer
ppp_stuff_process(input) ==
    LET fcs == Xor(fcs16_all(FCS16_INIT, ppp_hdlc_header \o input),
                   FCS16_INIT)
    IN  <<ppp_flag_byte>>
        \o stuff_all(ppp_hdlc_header) \o stuff_all(input)
        \o stuff_all(<<fcs % 256, fcs \div 256>>)
        \o <<ppp_flag_byte>>

\* ppp_unstuff.__init__: the deframer, with what it has handed to its
\* callback (sent) and the diagnostics it has logged (diag)
NewUnstuff ==
    [in_frame |-> FALSE, in_escape |-> FALSE,
     hdlc_header_bytes_checked |-> 0, frame_size |-> 0, fcs |-> FCS16_INIT,
     out |-> <<>>, sent |-> <<>>, diag |-> <<>>]

\* len(self.out): the output buffer of the deframer (2048 octets in
\* SerialService, a few octets in the model)
HdlcOutSize == 4

start_new_frame(h) ==
    [h EXCEPT !.in_frame = TRUE, !.hdlc_header_bytes_checked = 0,
              !.in_escape = FALSE, !.frame_size = 0, !.fcs = FCS16_INIT,
              !.out = <<>>]

\* faulty variant: the callback gets the FCS octets as well
unstuff_send_frame_with_fcs(h, frame_size) ==
    [h EXCEPT !.sent = Append(@, SubSeq(h.out, 1, frame_size + 2))]

\* self.send_frame(self.frame_size - 2): the callback gets the first
\* frame_size - 2 octets of the output buffer
unstuff_send_frame(h, frame_size) ==
    [h EXCEPT !.sent = Append(@, SubSeq(h.out, 1, frame_size))]

Debug(h, what) == [h EXCEPT !.diag = Append(@, what)]

\* faulty variant: a flag after the escape code ends the frame like any flag
end_of_frame_ignores_escape(h) ==
    start_new_frame(
        IF h.frame_size < 4 THEN h
        ELSE IF h.fcs = FCS16_GOOD
             THEN unstuff_send_frame(h, h.frame_size - 2)
             ELSE Debug(h, "Invalid FCS received from modem"))

\* the flag octet of process_byte while in a frame
end_of_frame(h) ==
    IF h.in_escape
    THEN [Debug(h, "Frame from modem ended with escape code")
            EXCEPT !.in_frame = FALSE]
    ELSE start_new_frame(
            IF h.frame_size < 4 THEN h
            ELSE IF h.fcs = FCS16_GOOD
                 THEN unstuff_send_frame(h, h.frame_size - 2)
                 ELSE Debug(h, "Invalid FCS received from modem"))

\* faulty variant: the octet is stored without looking at the buffer length
frame_octet_unbounded(h, b) ==
    LET h1 == [h EXCEPT !.fcs = fcs16(h.fcs, b)]
    IN  IF h1.hdlc_header_bytes_checked < Len(ppp_hdlc_header)
        THEN IF b = ppp_hdlc_header[h1.hdlc_header_bytes_checked + 1]
             THEN [h1 EXCEPT !.hdlc_header_bytes_checked = @ + 1]
             ELSE [Debug(h1, "Bad frame header from modem")
                     EXCEPT !.in_frame = FALSE]
        ELSE [h1 EXCEPT !.out = Append(@, b), !.frame_size = @ + 1]

\* an octet of the frame after unescaping: FCS, header check, store
frame_octet(h, b) ==
    LET h1 == [h EXCEPT !.fcs = fcs16(h.fcs, b)]
    IN  IF h1.hdlc_header_bytes_checked < Len(ppp_hdlc_header)
        THEN IF b = ppp_hdlc_header[h1.hdlc_header_bytes_checked + 1]
             THEN [h1 EXCEPT !.hdlc_header_bytes_checked = @ + 1]
             ELSE [Debug(h1, "Bad frame header from modem")
                     EXCEPT !.in_frame = FALSE]
        ELSE IF h1.frame_size >= HdlcOutSize
             THEN [Debug(h1, "Frame from modem is too long")
                     EXCEPT !.in_frame = FALSE]
        ELSE [h1 EXCEPT !.out = Append(@, b), !.frame_size = @ + 1]

process_byte(h, b) ==
    IF h.in_frame
    THEN IF b = ppp_flag_byte THEN end_of_frame(h)
         ELSE IF h.in_escape
              THEN frame_octet([h EXCEPT !.in_escape = FALSE], Xor(b, 32))
         ELSE IF b = ppp_escape_code THEN [h EXCEPT !.in_escape = TRUE]
         ELSE frame_octet(h, b)
    ELSE IF b = ppp_flag_byte THEN start_new_frame(h)
    ELSE h

\* ppp_unstuff.process(data)
RECURSIVE process(_, _)
process(h, data) ==
    IF data = <<>> THEN h
    ELSE process(process_byte(h, Head(data)), Tail(data))


\* the line: the payload the sender was given (P), the octets it wrote
\* (wire), how many of them the deframer has been given (pos), the other
\* octets the deframer was given (noise before the frame, dirty: some
\* came after the frame's first octet), the octets of the last call of
\* process (fed), and the deframer (h)
HdlcIdle ==
    [framed |-> FALSE, P |-> <<>>, wire |-> <<>>, pos |-> 0, noise |-> 0,
     dirty |-> FALSE, fed |-> <<>>, h |-> NewUnstuff]

(***************************************************************************)
(* Inputs: the frames and modem reads the environment may deliver          *)
(***************************************************************************)
\* a session number no walk of the model reaches (0x1234)
STRAY_SESSION == 4660

TagsOf(t, vs) == [x \in {t} |-> vs]

Merge(a, b) == [t \in DOMAIN a \cup DOMAIN b |->
                   IF t \in DOMAIN b THEN b[t] ELSE a[t]]

SN(n) == TagsOf(tts.Service_Name, <<n>>)

HostUniq == TagsOf(tts.Host_Uniq, <<"abcd">>)

RelayId == TagsOf(tts.Relay_Session_Id, <<"relay1">>)

P1 == "66:77:88:99:aa:bb"
P2 == "02:00:00:00:00:02"
Peers == {P1, P2}

DFrame(dest, src, code, session_id, tags) ==
    [short |-> FALSE, etype |-> PPPOE_DISCOVERY, vt |-> VERTYPE,
     fits |-> TRUE, parses |-> TRUE, dest |-> dest, src |-> src,
     code |-> code, session_id |-> session_id, tags |-> tags,
     payload |-> NoPayload]

\* tags of a PADI or PADR without exactly one decodable Service-Name
BadReqTags ==
    {HostUniq, TagsOf(tts.Service_Name, <<"svc", "svc">>), SN(BADUTF8)}

PadiFrames ==
    {DFrame(BROADCAST, P1, CODE_PADI, 0, t) :
        t \in {SN(""), SN("svc"), SN("other"), Merge(SN(""), HostUniq),
               Merge(SN("svc"), Merge(HostUniq, RelayId))} \cup BadReqTags}
    \cup {DFrame(AC_MAC, P2, CODE_PADI, 0, SN("null")),
          DFrame(BROADCAST, P1, CODE_PADI, STRAY_SESSION, SN(""))}

\* PADR frames that may reach SerialService.connect
PadrSerialFrames ==
    {DFrame(AC_MAC, p, CODE_PADR, 0, SN(n)) : p \in Peers, n \in {"", "svc"}}
    \cup {DFrame(AC_MAC, P1, CODE_PADR, 0, Merge(SN("svc"), HostUniq)),
          DFrame(AC_MAC, P2, CODE_PADR, 0,
                 Merge(SN(""), Merge(HostUniq, RelayId)))}

PadrOtherFrames ==
    {DFrame(AC_MAC, p, CODE_PADR, 0, SN("null")) : p \in Peers}
    \cup {DFrame(AC_MAC, P1, CODE_PADR, 0, t) :
             t \in {SN("other"), Merge(SN("other"), Merge(HostUniq, RelayId)),
                    Merge(SN("null"), HostUniq)} \cup BadReqTags}
    \cup {DFrame(BROADCAST, P1, CODE_PADR, 0, SN("")),
          DFrame(AC_MAC, P1, CODE_PADR, STRAY_SESSION, SN(""))}

\* PADT for every session of the table from either peer, for a session that
\* is not in the table and with session id 0
PadtFrames ==
    {DFrame(AC_MAC, p, CODE_PADT, i, NoTags) :
        p \in Peers, i \in DOMAIN sessions}
    \cup {DFrame(AC_MAC, P1, CODE_PADT, STRAY_SESSION, NoTags),
          DFrame(AC_MAC, P1, CODE_PADT, 0, NoTags)}

\* frames read_discovery drops: headers it rejects and a code it ignores
BadDiscoveryFrames ==
    LET f == DFrame(AC_MAC, P1, CODE_PADR, 0, SN(""))
    IN  {[f EXCEPT !.short = TRUE], [f EXCEPT !.etype = PPPOE_SESSION],
         [f EXCEPT !.vt = 0], [f EXCEPT !.fits = FALSE],
         [f EXCEPT !.parses = FALSE], [f EXCEPT !.code = CODE_PADO]}

\* discovery payloads as octets: a Host-Uniq tag alone, and followed by
\* End-Of-List, by End-Of-List and more octets, by an End-Of-List of
\* length 1, by three octets of a tag header and by a tag whose value is cut
HostUniqOctets == tag_to_payload(tts.Host_Uniq, <<97>>)

EndOfListOctets == tag_header_pack(tts.End_Of_List, 0)

RawPayloads ==
    {<<>>, HostUniqOctets, HostUniqOctets \o EndOfListOctets,
     HostUniqOctets \o EndOfListOctets \o <<1, 3, 0, 9>>,
     EndOfListOctets \o tag_header_pack(tts.End_Of_List, 1) \o <<7>>,
     HostUniqOctets \o tag_header_pack(tts.End_Of_List, 1) \o <<7>>,
     HostUniqOctets \o <<1, 3, 0>>,
     HostUniqOctets \o tag_header_pack(tts.Host_Uniq, 2) \o <<97>>}

\* the frames that carry them: a PADT for every session of the table and a
\* PADI
RawBases ==
    {DFrame(AC_MAC, P1, CODE_PADT, i, NoTags) : i \in DOMAIN sessions}
    \cup {DFrame(BROADCAST, P1, CODE_PADI, 0, NoTags)}

\* tags = payload_to_tags(payload), except ValueError
RawFrame(base, raw) ==
    LET r == payload_to_tags(raw)
    IN  [base EXCEPT !.parses = ~r.err, !.tags = r.tags] @@ [raw |-> raw]

\* what the device and the chat program may do during SerialService.connect
ConnectOutcomes ==
    {[open_ok |-> FALSE, chat_rc |-> 0], [open_ok |-> TRUE, chat_rc |-> 0],
     [open_ok |-> TRUE, chat_rc |-> 1]}

NoOutcome == [open_ok |-> TRUE, chat_rc |-> 0]

PadoOrders == SetOrders(available_services)

APayload == Payload("ppp", 6)

\* another PPP payload
BPayload == Payload("ip", 8)

\* a payload longer than the MTU
BigPayload == Payload("big", MTU + 1)

SFrame(dest, src, session_id, payload) ==
    [short |-> FALSE, etype |-> PPPOE_SESSION, vt |-> VERTYPE,
     fits |-> TRUE, parses |-> TRUE, dest |-> dest, src |-> src,
     code |-> 0, session_id |-> session_id, tags |-> NoTags,
     payload |-> payload]

KnownSessionFrames ==
    {SFrame(AC_MAC, p, i, APayload) : p \in Peers, i \in DOMAIN sessions}

OtherSessionFrames ==
    LET f == SFrame(AC_MAC, P1, STRAY_SESSION, APayload)
    IN  {f, [f EXCEPT !.short = TRUE], [f EXCEPT !.etype = PPPOE_DISCOVERY],
         [f EXCEPT !.vt = 0], [f EXCEPT !.code = CODE_PADT],
         [f EXCEPT !.fits = FALSE], [f EXCEPT !.dest = BROADCAST]}

ModemReads ==
    {[n |-> 0, frames |-> <<>>], [n |-> 3, frames |-> <<>>],
     [n |-> 12, frames |-> <<APayload>>],
     [n |-> 1510, frames |-> <<BigPayload>>],
     [n |-> 1536, frames |-> <<APayload, BigPayload, BPayload>>]}

SHUTDOWN_MESSAGE == "Shutting down"

(***************************************************************************)
(* The state after construction.  The generator's first number is random;  *)
(* the cold start draws it next to the wrap.  The warm start is the state  *)
(* of an AC whose generator has been round the ring: the base Service      *)
(* still holds session 0xffff and the generator last yielded 0xfffe, for   *)
(* a session that has ended since.                                         *)
(***************************************************************************)
AllIdle == [s \in SvcIds |-> IdleService]

BaseSvc == CHOOSE s \in SvcIds : services[s].cls = "Service"

NoEvent == [kind |-> "none", fr |-> DFrame(None, None, 0, 0, NoTags), s |-> 0]

Init ==
    /\ hdlc = HdlcIdle
    /\ tagio = TagIdle
    /\ rx = RxIdle
    /\ log = <<>>
    /\ loop = "running"
    /\ exc = "none"
    /\ event = NoEvent
    /\ chatscript \in BOOLEAN
    /\ ac_api \in BOOLEAN
    /\ send_api \in {b \in BOOLEAN : b => ac_api}
    /\ txfull = FALSE
    /\ \/ /\ sessions = <<>>
          /\ svc = AllIdle
          /\ session_number \in [started : {FALSE}, i : StartIds]
       \/ /\ sessions = [i \in {SESSION_MAX} |-> BaseSvc]
          /\ \E p \in Peers :
                svc = [AllIdle EXCEPT ![BaseSvc] =
                          [IdleService EXCEPT !.state = CONNECTED,
                                              !.ac = TRUE, !.peer = p,
                                              !.session_id = SESSION_MAX]]
          /\ session_number = [started |-> TRUE, i |-> FirstStart]

(***************************************************************************)
(* The event loop: events = sel.select(); key.data(mask) for each.  A      *)
(* callback that raises ends the loop, and the finally block runs.         *)
(***************************************************************************)
Enter ==
    [sessions |-> sessions, svc |-> svc, gen |-> session_number,
     log |-> <<>>, exc |-> "none", msg |-> "", ret |-> 0]

Commit(st, kind, fr, s) ==
    /\ sessions' = st.sessions
    /\ svc' = st.svc
    /\ session_number' = st.gen
    /\ log' = st.log
    /\ exc' = st.exc
    /\ loop' = IF Ok(st) THEN "running" ELSE "raised"
    /\ event' = [kind |-> kind, fr |-> fr, s |-> s]
    /\ UNCHANGED <<chatscript, ac_api, send_api, txfull, hdlc, tagio,
                            rx>>

ReadDiscovery ==
    /\ loop = "running"
    /\ \/ \E fr \in PadiFrames, order \in PadoOrders :
             Commit(read_discovery(Enter, fr, order, TRUE, 0),
                    "discovery", fr, 0)
       \/ \E fr \in PadrSerialFrames, o \in ConnectOutcomes :
             LET st == read_discovery(Enter, fr, <<>>, o.open_ok, o.chat_rc)
             IN  /\ RingDist(st.gen.i) <= MaxWalk
                 /\ Commit(st, "discovery", fr, 0)
       \/ \E fr \in PadrOtherFrames :
             LET st == read_discovery(Enter, fr, <<>>, TRUE, 0)
             IN  /\ RingDist(st.gen.i) <= MaxWalk
                 /\ Commit(st, "discovery", fr, 0)
       \/ \E fr \in PadtFrames \cup BadDiscoveryFrames :
             Commit(read_discovery(Enter, fr, <<>>, TRUE, 0),
                    "discovery", fr, 0)
       \/ \E base \in RawBases, raw \in RawPayloads :
             Commit(read_discovery(Enter, RawFrame(base, raw), <<>>, TRUE, 0),
                    "discovery", RawFrame(base, raw), 0)

ReadSession ==
    /\ loop = "running"
    /\ \/ \E fr \in KnownSessionFrames, would_block \in BOOLEAN :
             Commit(read_session(Enter, fr, would_block), "session", fr, 0)
       \/ \E fr \in OtherSessionFrames :
             Commit(read_session(Enter, fr, FALSE), "session", fr, 0)

ReadFromModem ==
    /\ loop = "running"
    /\ \E s \in SvcIds, rawdata \in ModemReads :
          /\ svc[s].registered
          /\ Commit(read_from_modem(Enter, s, rawdata), "modem",
                    [NoEvent.fr EXCEPT !.payload = Payload("", rawdata.n)]
                        @@ [frames |-> rawdata.frames], s)

\* the finally block (AC.shutdown), entered by KeyboardInterrupt while the
\* loop waits in select() or by the exception of a callback
Shutdown ==
    /\ loop \in {"running", "raised"}
    /\ \E items \in SetOrders({<<i, sessions[i]>> : i \in DOMAIN sessions}) :
          LET st == shutdown(Enter, items, SHUTDOWN_MESSAGE)
          IN  /\ sessions' = st.sessions
              /\ svc' = st.svc
              /\ session_number' = st.gen
              /\ log' = st.log
              /\ exc' = IF Ok(st) THEN exc ELSE st.exc
              /\ loop' = "exited"
              /\ event' = [NoEvent EXCEPT !.kind = "shutdown"]
              /\ UNCHANGED <<chatscript, ac_api, send_api, txfull, hdlc, tagio,
                            rx>>

Next == ReadDiscovery \/ ReadSession \/ ReadFromModem \/ Shutdown

Spec == Init /\ [][Next]_vars

(***************************************************************************)
(* The event loop on an interface whose transmit queue fills and drains:   *)
(* both raw sockets are non-blocking (setblocking(False)), and a send on   *)
(* a full queue raises BlockingIOError.                                    *)
(***************************************************************************)
\* the transmit queue of the interface fills, or drains
Congest ==
    /\ loop = "running"
    /\ txfull' = ~txfull
    /\ UNCHANGED <<sessions, svc, session_number, log, loop, exc, event,
                   chatscript, ac_api, send_api, hdlc, tagio, rx>>

NextFull == Next \/ Congest

SpecFull == Init /\ [][NextFull]_vars

(***************************************************************************)
(* The event loop with batches: sel.select() returns every key that is     *)
(* ready, and the loop calls key.data(mask) for each of them in turn.  A   *)
(* callback of the batch may unregister and close the descriptor of a key  *)
(* that comes later in the same batch; the loop calls that key's callback  *)
(* all the same.                                                           *)
(***************************************************************************)
\* the last callback disconnected service s, whose descriptor was registered
\* when select() returned
DisconnectedInBatch(s) ==
    /\ event.kind = "discovery"
    /\ services[s].cls = "SerialService"
    /\ \E k \in DOMAIN log : log[k].ev = "disconnect" /\ log[k].s = s

\* rawdata = os.read(self._f.fileno(), 4096) on a descriptor that select()
\* did not report: would_block is the BlockingIOError of a read that finds
\* no octets
stale_read_from_modem(st, s, rawdata, would_block) ==
    IF ~st.svc[s].f \/ ~st.svc[s].ac \/ st.svc[s].peer = None
       \/ st.svc[s].session_id = 0
    THEN Raise(st, "AssertionError")
    ELSE IF would_block THEN Raise(st, "BlockingIOError")
    ELSE read_from_modem(st, s, rawdata)

\* key.data(mask) for the modem key of a batch, after the discovery callback
\* of the same batch
StaleReadFromModem ==
    /\ loop = "running"
    /\ \E s \in SvcIds, rawdata \in ModemReads, would_block \in BOOLEAN :
          /\ DisconnectedInBatch(s)
          /\ Commit(stale_read_from_modem(Enter, s, rawdata, would_block),
                    "modem",
                    [NoEvent.fr EXCEPT !.payload = Payload("", rawdata.n)]
                        @@ [frames |-> rawdata.frames], s)

NextBatch == Next \/ StaleReadFromModem

SpecBatch == Init /\ [][NextBatch]_vars

(***************************************************************************)
(* The event loop on a segment with other stations: the raw sockets        *)
(* deliver every frame of their ethertype that the interface receives,     *)
(* whatever its source and its destination address.                        *)
(***************************************************************************)
\* a station that is the peer of no session, and an address that is not
\* the AC's
P3 == "02:00:00:00:00:03"
OTHER_MAC == "00:11:22:33:44:66"

ForeignDiscoveryFrames ==
    {DFrame(d, P3, CODE_PADT, i, NoTags) :
        d \in {OTHER_MAC, BROADCAST}, i \in DOMAIN sessions}
    \cup {DFrame(OTHER_MAC, P3, c, 0, SN("")) : c \in {CODE_PADI, CODE_PADR}}

ForeignSessionFrames ==
    {SFrame(OTHER_MAC, P3, i, APayload) : i \in DOMAIN sessions}

ReadForeign ==
    /\ loop = "running"
    /\ \/ \E fr \in ForeignDiscoveryFrames, order \in PadoOrders :
             Commit(read_discovery(Enter, fr, order, TRUE, 0),
                    "discovery", fr, 0)
       \/ \E fr \in ForeignSessionFrames, would_block \in BOOLEAN :
             Commit(read_session(Enter, fr, would_block), "session", fr, 0)

NextForeign == Next \/ ReadForeign

SpecForeign == Init /\ [][NextForeign]_vars

(***************************************************************************)
(* The serial line alone: ppp_stuff.process frames a payload, and          *)
(* ppp_unstuff.process is called with the octets read from the line, in    *)
(* pieces, with other octets before, within and after the frame.           *)
(***************************************************************************)
\* the payloads: every octet string of at most MaxPayloadLen octets over
\* PayloadBytes (an ordinary octet, NUL, the escape code and the flag)
MaxPayloadLen == 3
PayloadBytes == {0, 65, ppp_escape_code, ppp_flag_byte}
Payloads == UNION {[1..n -> PayloadBytes] : n \in 0..MaxPayloadLen}

\* octets on the line that belong to no frame of the sender
MaxNoise == 2
NoiseBytes == {65, 255, ppp_escape_code, ppp_flag_byte}

\* the most octets one call of process is given
MaxChunk == 2

\* no AC is involved
HdlcInit ==
    /\ hdlc = HdlcIdle
    /\ tagio = TagIdle
    /\ rx = RxIdle
    /\ log = <<>> /\ loop = "exited" /\ exc = "none" /\ event = NoEvent
    /\ chatscript = FALSE /\ ac_api = FALSE /\ txfull = FALSE
    /\ send_api = FALSE
    /\ sessions = <<>> /\ svc = AllIdle
    /\ session_number = [started |-> FALSE, i |-> SESSION_MAX]

NoAC ==
    UNCHANGED <<sessions, svc, session_number, log, loop, exc, event,
                chatscript, ac_api, send_api, txfull, tagio, rx>>

\* size = self.ppp_stuff.process(payload)
StuffFrame ==
    /\ ~hdlc.framed
    /\ \E P \in Payloads :
          hdlc' = [hdlc EXCEPT !.framed = TRUE, !.P = P,
                               !.wire = ppp_stuff_process(P), !.fed = <<>>]
    /\ NoAC

\* self.ppp_unstuff.process(rawdata), rawdata the next octets of the frame
ProcessFrame ==
    /\ hdlc.framed
    /\ \E n \in 1..MaxChunk :
          /\ hdlc.pos + n <= Len(hdlc.wire)
          /\ LET data == SubSeq(hdlc.wire, hdlc.pos + 1, hdlc.pos + n)
             IN  hdlc' = [hdlc EXCEPT !.pos = @ + n, !.fed = data,
                                      !.h = process(hdlc.h, data)]
    /\ NoAC

\* self.ppp_unstuff.process(rawdata), rawdata an octet of line noise
ProcessNoise ==
    /\ hdlc.noise < MaxNoise
    /\ \E b \in NoiseBytes :
          hdlc' = [hdlc EXCEPT !.noise = @ + 1, !.fed = <<b>>,
                               !.dirty = @ \/ hdlc.pos > 0,
                               !.h = process(hdlc.h, <<b>>)]
    /\ NoAC

HdlcNext == StuffFrame \/ ProcessFrame \/ ProcessNoise

SpecHDLC == HdlcInit /\ [][HdlcNext]_vars

(***************************************************************************)
(* The tag codec alone: a producer's TagSet is encoded, and the payload    *)
(* is parsed back.                                                         *)
(***************************************************************************)
\* the tag types: End-Of-List, Service-Name, Host-Uniq
TagTypes == {tts.End_Of_List, tts.Service_Name, tts.Host_Uniq}

\* tag values: empty, one octet, two octets
TagValues == {<<>>, <<97>>, <<98, 0>>}

\* the most values a TagSet holds for one type
MaxTagValues == 2

TagSets ==
    UNION {[D -> UNION {[1..n -> TagValues] : n \in 0..MaxTagValues}] :
              D \in SUBSET TagTypes}

TagInit ==
    /\ tagio = TagIdle
    /\ rx = RxIdle
    /\ hdlc = HdlcIdle
    /\ log = <<>> /\ loop = "exited" /\ exc = "none" /\ event = NoEvent
    /\ chatscript = FALSE /\ ac_api = FALSE /\ txfull = FALSE
    /\ send_api = FALSE
    /\ sessions = <<>> /\ svc = AllIdle
    /\ session_number = [started |-> FALSE, i |-> SESSION_MAX]

\* payload = tags_to_payload(T)
EncodeTags ==
    /\ ~tagio.encoded
    /\ \E T \in TagSets : \E order \in SetOrders(DOMAIN T) :
          tagio' = [tagio EXCEPT !.encoded = TRUE, !.T = T,
                                 !.payload = tags_to_payload(T, order)]
    /\ UNCHANGED <<sessions, svc, session_number, log, loop, exc, event,
                   chatscript, ac_api, send_api, txfull, hdlc, rx>>

\* tags = payload_to_tags(payload)
DecodeTags ==
    /\ tagio.encoded /\ ~tagio.decoded
    /\ LET r == payload_to_tags(tagio.payload)
       IN  tagio' = [tagio EXCEPT !.decoded = TRUE, !.err = r.err,
                                  !.tags = r.tags]
    /\ UNCHANGED <<sessions, svc, session_number, log, loop, exc, event,
                   chatscript, ac_api, send_api, txfull, hdlc, rx>>

TagNext == EncodeTags \/ DecodeTags

SpecTags == TagInit /\ [][TagNext]_vars

(***************************************************************************)
(* The receive path alone: frames of any length with any declared payload  *)
(* length arrive on the two sockets.                                       *)
(***************************************************************************)
\* octets of received frames (the buffer starts as zeros)
RxOctets == {1, 2}

\* the octets a frame holds behind its header
RxData == UNION {[1..n -> RxOctets] : n \in 0..RxCap}

RxInit ==
    /\ rx = RxIdle
    /\ tagio = TagIdle
    /\ hdlc = HdlcIdle
    /\ log = <<>> /\ loop = "exited" /\ exc = "none" /\ event = NoEvent
    /\ chatscript = FALSE /\ ac_api = FALSE /\ txfull = FALSE
    /\ send_api = FALSE
    /\ sessions = <<>> /\ svc = AllIdle
    /\ session_number = [started |-> FALSE, i |-> SESSION_MAX]

\* recv_into, the header tests passed, up to the payload handed on
Receive(sock, data, payload_length) ==
    LET buf == recv_into(rx.buf, data)
        r == payload_view(buf, Len(data), payload_length)
    IN  /\ rx' = [buf |-> buf, sock |-> sock, data |-> data,
                  payload_length |-> payload_length,
                  dropped |-> r.dropped, payload |-> r.payload]
        /\ UNCHANGED <<sessions, svc, session_number, log, loop, exc,
                       event, chatscript, ac_api, send_api, txfull, hdlc,
                       tagio>>

\* read_discovery up to payload_to_tags(payload)
RecvDiscovery ==
    \E data \in RxData, payload_length \in 0..(RxCap + 1) :
        Receive("discovery", data, payload_length)

\* read_session up to process_session_payload(payload)
RecvSession ==
    \E data \in RxData, payload_length \in 0..(RxCap + 1) :
        Receive("session", data, payload_length)

RxNext == RecvDiscovery \/ RecvSession

SpecRecv == RxInit /\ [][RxNext]_vars

(***************************************************************************)
(* One SerialService over several sessions, with the serial line at octet  *)
(* level: the far end of the line sends frames (hdlc.wire), the service    *)
(* reads them in pieces while it is connected, and PADR and PADT frames    *)
(* begin and end its sessions.  hdlc.h is the deframer the service holds   *)
(* (self.ppp_unstuff); hdlc.dirty says that the service has not read the   *)
(* frame on the line from its first octet on within the present session.   *)
(* The AC is the revision serial.py is written for.                        *)
(***************************************************************************)
\* the SerialService
LineSvc == CHOOSE s \in SvcIds : services[s].cls = "SerialService"

\* the payloads the far end sends: with their FCS they fill the output
\* buffer of the deframer (HdlcOutSize)
LinePayloads == {<<65, 66>>, <<ppp_flag_byte, 66>>}

\* the most octets one os.read returns
MaxLineChunk == 4

LineInit ==
    /\ hdlc = HdlcIdle
    /\ tagio = TagIdle
    /\ rx = RxIdle
    /\ log = <<>> /\ loop = "running" /\ exc = "none" /\ event = NoEvent
    /\ chatscript = FALSE /\ ac_api = TRUE /\ send_api = TRUE
    /\ txfull = FALSE
    /\ sessions = <<>> /\ svc = AllIdle
    /\ session_number \in [started : {FALSE}, i : StartIds]

\* the callback returns: as Commit, with the line and the deframer
CommitLine(st, kind, fr, s, line) ==
    /\ sessions' = st.sessions
    /\ svc' = st.svc
    /\ session_number' = st.gen
    /\ log' = st.log
    /\ exc' = st.exc
    /\ loop' = IF Ok(st) THEN "running" ELSE "raised"
    /\ event' = [kind |-> kind, fr |-> fr, s |-> s]
    /\ hdlc' = line
    /\ UNCHANGED <<chatscript, ac_api, send_api, txfull, tagio, rx>>

\* faulty variant: the new session goes on with the deframer of the last
new_unstuff_keeps_state(old) == old

\* self.ppp_unstuff = ppp_unstuff(...): the deframer of the new session
new_unstuff(old) == NewUnstuff

\* SerialService.connect returned to this callback with both framers made
MadeFramers(st) ==
    /\ \E k \in DOMAIN st.log :
          st.log[k].ev = "connect" /\ st.log[k].s = LineSvc
    /\ st.svc[LineSvc].has_ppp_unstuff

\* the far end starts to send a frame
LineSend ==
    /\ loop = "running"
    /\ hdlc.pos = Len(hdlc.wire)
    /\ \E P \in LinePayloads :
          hdlc' = [hdlc EXCEPT !.framed = TRUE, !.P = P,
                               !.wire = ppp_stuff_process(P), !.pos = 0,
                               !.dirty = FALSE, !.fed = <<>>]
    /\ UNCHANGED <<sessions, svc, session_number, log, loop, exc, event,
                   chatscript, ac_api, send_api, txfull, tagio, rx>>

\* read_discovery for a PADR that names the service or a PADT for a session
\* of the table; discard: the octets self._f.read(1024) of connect throws
\* away
LineDiscovery ==
    /\ loop = "running"
    /\ \E fr \in {DFrame(AC_MAC, p, CODE_PADR, 0,
                          SN(services[LineSvc].name)) : p \in Peers}
                 \cup {DFrame(AC_MAC, P1, CODE_PADT, i, NoTags) :
                          i \in DOMAIN sessions},
          open_ok \in BOOLEAN,
          discard \in 0..(Len(hdlc.wire) - hdlc.pos) :
          LET st == read_discovery(Enter, fr, <<>>, open_ok, 0)
              pos == hdlc.pos + discard
          IN  /\ RingDist(st.gen.i) <= MaxWalk
              /\ ~MadeFramers(st) => discard = 0
              /\ CommitLine(st, "discovery", fr, 0,
                     IF MadeFramers(st)
                     THEN [hdlc EXCEPT
                             !.h = new_unstuff(hdlc.h), !.pos = pos,
                             !.dirty = pos > 0 /\ pos < Len(hdlc.wire),
                             !.fed = <<>>]
                     ELSE hdlc)

\* read_from_modem with the next octets of the line: the deframer is given
\* them, and send_frame is called for the frames it completes
LineRead ==
    /\ loop = "running"
    /\ svc[LineSvc].registered
    /\ \E n \in 1..MaxLineChunk :
          /\ hdlc.pos + n <= Len(hdlc.wire)
          /\ LET data == SubSeq(hdlc.wire, hdlc.pos + 1, hdlc.pos + n)
                 h == process([hdlc.h EXCEPT !.sent = <<>>, !.diag = <<>>],
                              data)
                 frames == [k \in DOMAIN h.sent |->
                               Payload(h.sent[k], Len(h.sent[k]))]
                 rawdata == [n |-> n, frames |-> frames]
             IN  CommitLine(read_from_modem(Enter, LineSvc, rawdata),
                            "modem",
                            [NoEvent.fr EXCEPT !.payload = Payload("", n)]
                                @@ [frames |-> frames],
                            LineSvc,
                            [hdlc EXCEPT !.pos = @ + n, !.fed = data,
                                         !.h = h])

LineNext == LineSend \/ LineDiscovery \/ LineRead

SpecLine == LineInit /\ [][LineNext]_vars

(***************************************************************************)
(* Properties                                                              *)
(***************************************************************************)
LogIdx == DOMAIN log

\* the log entries that are frames handed to a socket
Sends(l) == SelectSeq(l, LAMBDA e : e.ev = "send")

HasEv(l, ev) == \E k \in DOMAIN l : l[k].ev = ev

\* C1: every id the session number generator returns is, as it is returned,
\* absent from the session table and within 0x0001..0xffff (never 0x0000),
\* also when the walk wraps from 0xffff to 0x0001
C1_FreshSessionId ==
    \A k \in LogIdx :
        log[k].ev = "alloc" =>
            /\ log[k].sid \notin log[k].table
            /\ log[k].sid >= SESSION_MIN
            /\ log[k].sid <= SESSION_MAX
            /\ log[k].sid # 0

\* the walk met 0xffff in the table, skipped it and wrapped to 0x0001
C1_Witness ==
    \E k \in LogIdx :
        /\ log[k].ev = "alloc"
        /\ log[k].sid = SESSION_MIN
        /\ SESSION_MAX \in log[k].table

\* C2: no service is the value of more than one session table entry
C2_OneSessionPerService ==
    \A i, j \in DOMAIN sessions : sessions[i] = sessions[j] => i = j

\* a takeover while the other service holds a session: two entries, two
\* services
C2_Witness ==
    /\ Cardinality(DOMAIN sessions) = 2
    /\ HasEv(log, "del")
    /\ HasEv(log, "connect")
    /\ loop = "running"

\* C3: between event handlers and after shutdown, every CONNECTED service
\* is referenced by exactly one session table entry
C3_ConnectedHasOneEntry ==
    loop \in {"running", "exited"} =>
        \A s \in SvcIds :
            svc[s].state = CONNECTED =>
                Cardinality({i \in DOMAIN sessions : sessions[i] = s}) = 1

\* C4: a service is IDLE with no part of a binding set, or not IDLE with
\* ac, peer and session_id all set
C4_BindingIffNotIdle ==
    \A s \in SvcIds :
        IF svc[s].state = IDLE
        THEN ~svc[s].ac /\ svc[s].peer = None /\ svc[s].session_id = 0
        ELSE svc[s].ac /\ svc[s].peer # None /\ svc[s].session_id # 0

\* SerialService.connect failed to open the device and left the service IDLE
C4_Witness ==
    \E k \in LogIdx :
        /\ log[k].ev = "open"
        /\ log[k].info = "SerialException"
        /\ svc[log[k].s].state = IDLE

\* ---- discovery frames as the claims describe them ----------------------
\* a frame read_discovery hands to the handler of the given code
Dispatched(fr, code) ==
    /\ ~fr.short /\ fr.etype = PPPOE_DISCOVERY /\ fr.vt = VERTYPE
    /\ fr.fits /\ fr.parses
    /\ fr.code = code /\ fr.session_id = 0

\* exactly one Service-Name, which is UTF-8
OneName(fr) ==
    /\ tts.Service_Name \in DOMAIN fr.tags
    /\ Len(fr.tags[tts.Service_Name]) = 1
    /\ fr.tags[tts.Service_Name][1] # BADUTF8

NameOf(fr) == fr.tags[tts.Service_Name][1]

Configured(n) == \E s \in SvcIds : services[s].name = n

\* the Host-Uniq and Relay-Session-Id tags of a request
Echoed(tags) ==
    [t \in {tts.Host_Uniq, tts.Relay_Session_Id} \cap DOMAIN tags |-> tags[t]]

\* a PADR for the AC with one Service-Name that is empty or configured
GoodPadr(ev) ==
    /\ ev.kind = "discovery"
    /\ Dispatched(ev.fr, CODE_PADR)
    /\ ev.fr.dest = AC_MAC
    /\ OneName(ev.fr)
    /\ (NameOf(ev.fr) = "" \/ Configured(NameOf(ev.fr)))

OpenFailed(l) ==
    \E k \in DOMAIN l : l[k].ev = "open" /\ l[k].info = "SerialException"

ChatFailed(l) == \E k \in DOMAIN l : l[k].ev = "chat" /\ l[k].code # 0

Pads(l) == SelectSeq(Sends(l), LAMBDA e : e.code = CODE_PADS)

\* C5: a PADR for the AC with session id 0 and one Service-Name that is
\* empty or configured, whose service connects (device opens, chat absent
\* or exit 0), is answered by exactly one PADS to the requester with a
\* non-zero session id S, the chosen Service-Name and the echoed tags, and
\* the table then maps S to the service, CONNECTED and bound to
\* (requester, S)
C5_PadsOnSuccess ==
    \A k \in LogIdx :
        (/\ GoodPadr(event)
         /\ log[k].ev = "connect"
         /\ ~OpenFailed(log) /\ ~ChatFailed(log))
        => LET s == log[k].s
               S == log[k].sid
           IN  /\ Len(Pads(log)) = 1
               /\ Pads(log)[1] =
                     SendEv("discovery", event.fr.src, CODE_PADS, S,
                            Merge(SN(services[s].name),
                                  Echoed(event.fr.tags)),
                            NoPayload, "sent")
               /\ S # 0
               /\ NameOf(event.fr) \in {"", services[s].name}
               /\ S \in DOMAIN sessions /\ sessions[S] = s
               /\ svc[s].state = CONNECTED
               /\ svc[s].ac /\ svc[s].peer = event.fr.src
               /\ svc[s].session_id = S

\* C6: when connect fails for either cause (device does not open, chat
\* exits non-zero) the PADR handler sends exactly one PADS to the requester
\* with AC-System-Error and the failure message, session id 0 and the
\* echoed tags, inserts nothing into the table, and the loop keeps running
C6_PadsOnServiceFailure ==
    \A k \in LogIdx :
        (/\ GoodPadr(event)
         /\ log[k].ev = "alloc"
         /\ (OpenFailed(log) \/ ChatFailed(log)))
        => /\ Len(Pads(log)) = 1
           /\ LET e == Pads(log)[1]
              IN  /\ e.peer = event.fr.src /\ e.sid = 0 /\ e.info = "sent"
                  /\ tts.AC_System_Error \in DOMAIN e.tags
                  /\ e.tags[tts.AC_System_Error] =
                        <<IF OpenFailed(log) THEN "Failed to open modem"
                          ELSE "Chatscript failed">>
                  /\ \A t \in {tts.Host_Uniq, tts.Relay_Session_Id} :
                        /\ t \in DOMAIN e.tags <=> t \in DOMAIN event.fr.tags
                        /\ t \in DOMAIN e.tags => e.tags[t] = event.fr.tags[t]
           /\ DOMAIN sessions = log[k].table
           /\ loop = "running" /\ exc = "none"

\* C7: after any failure of SerialService.connect (device does not open,
\* chat exits non-zero) the descriptor is unregistered and closed and the
\* service is IDLE with no binding
C7_ConnectFailureCleansUp ==
    \A k \in LogIdx :
        (/\ event.kind = "discovery"
         /\ log[k].ev = "connect"
         /\ services[log[k].s].cls = "SerialService"
         /\ (OpenFailed(log) \/ ChatFailed(log)))
        => LET s == log[k].s
           IN  /\ ~svc[s].f /\ ~svc[s].registered
               /\ svc[s].state = IDLE
               /\ ~svc[s].ac /\ svc[s].peer = None /\ svc[s].session_id = 0

\* C8: when the PADR handler selects a service that is not IDLE, one PADT
\* goes to the service's previous peer with the previous session id, the
\* previous id (present in the table) is removed and the service returned
\* to IDLE, before the new session id is allocated and before any PADS
C8_TakeoverFirst ==
    [][\A s \in SvcIds :
          (/\ loop = "running"
           /\ GoodPadr(event')
           /\ s = FirstOf(Candidates(NameOf(event'.fr)))
           /\ svc[s].state # IDLE)
          => /\ svc[s].session_id \in DOMAIN sessions
             /\ exc' \notin {"KeyError", "AssertionError"}
             /\ Len(log') >= 4
             /\ log'[1] = SendEv("discovery", svc[s].peer, CODE_PADT,
                                 svc[s].session_id, NoTags, NoPayload,
                                 "sent")
             /\ log'[2].ev = "del" /\ log'[2].sid = svc[s].session_id
             /\ log'[3].ev = "disconnect" /\ log'[3].s = s
             /\ log'[3].info = IDLE
             /\ log'[4].ev = "alloc"
             /\ svc[s].session_id \notin log'[4].table
             /\ \A k \in DOMAIN log' :
                   /\ (log'[k].ev = "send" /\ log'[k].code = CODE_PADT)
                         => k = 1
                   /\ (log'[k].ev = "send" /\ log'[k].code = CODE_PADS)
                         => k > 4
      ]_vars

\* a takeover that went on to a new session: PADT first, PADS last
C8_Witness ==
    /\ GoodPadr(event)
    /\ Len(log) >= 5
    /\ log[1].ev = "send" /\ log[1].code = CODE_PADT
    /\ log[1].peer # event.fr.src
    /\ log[Len(log)].ev = "send" /\ log[Len(log)].code = CODE_PADS
    /\ log[Len(log)].sid # 0

\* a PADR for the AC whose one Service-Name is not empty and not configured
UnknownPadr(ev) ==
    /\ ev.kind = "discovery"
    /\ Dispatched(ev.fr, CODE_PADR)
    /\ ev.fr.dest = AC_MAC
    /\ OneName(ev.fr)
    /\ NameOf(ev.fr) # "" /\ ~Configured(NameOf(ev.fr))

UnknownPads(fr) ==
    SendEv("discovery", fr.src, CODE_PADS, 0,
           Merge(TagsOf(tts.Service_Name_Error,
                        <<"Requested service does not exist">>),
                 Echoed(fr.tags)),
           NoPayload, "sent")

\* C9: a PADR whose one Service-Name is not empty and names no configured
\* service is answered by exactly one PADS with session id 0,
\* Service-Name-Error "Requested service does not exist" and the echoed
\* tags; nothing connects, no id is allocated, table and services are
\* unchanged
C9_UnknownServiceName ==
    [][(loop = "running" /\ UnknownPadr(event'))
          => /\ log' = <<UnknownPads(event'.fr)>>
             /\ sessions' = sessions /\ svc' = svc
             /\ session_number' = session_number
             /\ loop' = "running"
      ]_vars

\* such a PADR, with both echoed tags, was answered while a session exists
C9_Witness ==
    /\ UnknownPadr(event)
    /\ DOMAIN Echoed(event.fr.tags) = {tts.Host_Uniq, tts.Relay_Session_Id}
    /\ log = <<UnknownPads(event.fr)>>
    /\ sessions # <<>>

\* a PADI read_discovery hands to handle_padi with one UTF-8 Service-Name
OneNamePadi(ev) ==
    /\ ev.kind = "discovery"
    /\ Dispatched(ev.fr, CODE_PADI)
    /\ OneName(ev.fr)

\* the frame is the PADO the claim describes for the request fr
IsPadoFor(e, fr) ==
    /\ e.ev = "send" /\ e.sock = "discovery" /\ e.info = "sent"
    /\ e.peer = fr.src /\ e.code = CODE_PADO /\ e.sid = 0
    /\ DOMAIN e.tags =
          {tts.Service_Name, tts.AC_Name} \cup DOMAIN Echoed(fr.tags)
    /\ e.tags[tts.AC_Name] = <<AC_NAME>>
    /\ Len(e.tags[tts.Service_Name]) = Cardinality(SvcIds)
    /\ \A s \in SvcIds :
          Cardinality({k \in DOMAIN e.tags[tts.Service_Name] :
                          e.tags[tts.Service_Name][k] = services[s].name}) = 1
    /\ \A t \in DOMAIN Echoed(fr.tags) : e.tags[t] = fr.tags[t]

\* C10: a PADI with session id 0 and one UTF-8 Service-Name that is empty or
\* configured is answered by exactly one PADO to its source with session id
\* 0, one Service-Name per configured service, one AC-Name and the
\* request's Host-Uniq and Relay-Session-Id verbatim; a PADI naming a
\* service nobody offers is answered by no frame; either way the table and
\* the services are unchanged
C10_PadiReply ==
    [][(loop = "running" /\ OneNamePadi(event'))
          => /\ IF NameOf(event'.fr) = "" \/ Configured(NameOf(event'.fr))
                THEN Len(log') = 1 /\ IsPadoFor(log'[1], event'.fr)
                ELSE log' = <<>>
             /\ sessions' = sessions /\ svc' = svc
             /\ session_number' = session_number
             /\ loop' = "running"
      ]_vars

\* a PADI with both echoed tags was answered while a session exists
C10_Witness ==
    /\ OneNamePadi(event)
    /\ DOMAIN Echoed(event.fr.tags) = {tts.Host_Uniq, tts.Relay_Session_Id}
    /\ Len(log) = 1 /\ IsPadoFor(log[1], event.fr)
    /\ sessions # <<>>

\* a PADT read_discovery accepts the header of
IsPadt(ev) ==
    /\ ev.kind = "discovery"
    /\ ~ev.fr.short /\ ev.fr.etype = PPPOE_DISCOVERY /\ ev.fr.vt = VERTYPE
    /\ ev.fr.fits /\ ev.fr.parses
    /\ ev.fr.code = CODE_PADT

\* the fields of a service that holds nothing: IDLE, no binding, no
\* descriptor, no framers
Released(r) ==
    /\ r.state = IDLE /\ ~r.ac /\ r.peer = None /\ r.session_id = 0
    /\ ~r.f /\ ~r.registered /\ ~r.has_ppp_stuff /\ ~r.has_ppp_unstuff

\* C11: a PADT with a non-zero session id of the table disconnects the
\* bound service (IDLE, descriptor unregistered and closed, framers
\* dropped) and removes exactly that entry; no frame is sent and no other
\* session or service is touched
C11_PadtEndsSession ==
    [][(/\ loop = "running"
        /\ IsPadt(event')
        /\ event'.fr.session_id # 0
        /\ event'.fr.session_id \in DOMAIN sessions)
          => LET sid == event'.fr.session_id
                 s == sessions[sid]
             IN  /\ Released(svc'[s])
                 /\ sessions' = [i \in DOMAIN sessions \ {sid} |-> sessions[i]]
                 /\ Sends(log') = <<>>
                 /\ \A t \in SvcIds \ {s} : svc'[t] = svc[t]
                 /\ session_number' = session_number
                 /\ loop' = "running"
      ]_vars

\* a PADT ended the session of the SerialService, which had its descriptor
\* registered, while the other session stays
C11_Witness ==
    /\ IsPadt(event)
    /\ \E k \in LogIdx :
          /\ log[k].ev = "disconnect"
          /\ services[log[k].s].cls = "SerialService"
          /\ Released(svc[log[k].s])
    /\ HasEv(log, "del")
    /\ event.fr.session_id \notin DOMAIN sessions
    /\ Cardinality(DOMAIN sessions) = 1

\* C12: a PADT whose session id is not in the table changes no state
\* (table, services, generator) and sends no frame, however often it comes
C12_UnknownPadtIgnored ==
    [][(/\ loop = "running"
        /\ IsPadt(event')
        /\ event'.fr.session_id \notin DOMAIN sessions)
          => /\ log' = <<>>
             /\ sessions' = sessions /\ svc' = svc
             /\ session_number' = session_number
             /\ loop' = "running"
      ]_vars

\* a PADT for a session that does not exist came while a session is up
C12_Witness ==
    /\ IsPadt(event)
    /\ event.fr.session_id = STRAY_SESSION
    /\ log = <<>>
    /\ sessions # <<>>
    /\ loop = "running"

\* a session frame read_session accepts the header of
IsSessionFrame(ev) ==
    /\ ev.kind = "session"
    /\ ~ev.fr.short /\ ev.fr.etype = PPPOE_SESSION /\ ev.fr.vt = VERTYPE
    /\ ev.fr.code = 0 /\ ev.fr.fits

\* C13: a well-formed session frame from peer P whose session id is not in
\* the table is answered by exactly one PADT to P with that session id and
\* changes nothing else (table, services, generator)
C13_StraySessionFrame ==
    [][(/\ loop = "running"
        /\ IsSessionFrame(event')
        /\ event'.fr.session_id \notin DOMAIN sessions)
          => /\ log' = <<SendEv("discovery", event'.fr.src, CODE_PADT,
                                event'.fr.session_id, NoTags, NoPayload,
                                "sent")>>
             /\ sessions' = sessions /\ svc' = svc
             /\ session_number' = session_number
             /\ loop' = "running"
      ]_vars

\* a stray session frame was answered while a session is up
C13_Witness ==
    /\ IsSessionFrame(event)
    /\ event.fr.session_id = STRAY_SESSION
    /\ Len(Sends(log)) = 1
    /\ log[1].code = CODE_PADT /\ log[1].sid = STRAY_SESSION
    /\ log[1].peer = event.fr.src
    /\ sessions # <<>>

\* ---- the serial framer -------------------------------------------------
\* the deframer has been given the whole frame of the sender
FrameGiven == hdlc.framed /\ hdlc.pos = Len(hdlc.wire)

\* the payload and its FCS fit the output buffer of the deframer
FitsDeframer(P) == Len(P) + 2 <= HdlcOutSize

\* C14: HDLC round trip: the octets ppp_stuff.process writes for a payload
\* P (the empty and the one-octet payload included), given to a fresh
\* ppp_unstuff in any pieces, make it call the callback exactly once, with
\* exactly P, and log no diagnostic
C14_RoundTrip ==
    (FrameGiven /\ hdlc.noise = 0 /\ FitsDeframer(hdlc.P))
        => hdlc.h.sent = <<hdlc.P>> /\ hdlc.h.diag = <<>>

\* C15: whatever octets the deframer was given before (also ones that
\* leave it in a frame or after an escape code), the first well-formed
\* frame that follows is handed to the callback with exactly its payload.
\* Stated for payloads of two octets and more, which a fresh deframer
\* delivers.
C15_Resynchronizes ==
    (FrameGiven /\ ~hdlc.dirty /\ FitsDeframer(hdlc.P) /\ Len(hdlc.P) >= 2)
        => /\ hdlc.h.sent # <<>>
           /\ hdlc.h.sent[Len(hdlc.h.sent)] = hdlc.P

\* C16: a flag that arrives while the deframer is in a frame and after an
\* escape code never calls the callback, whatever the frame holds, and
\* leaves the deframer out of frame; out of frame it ignores every octet
\* up to the next flag
C16_EscapeBeforeFlag ==
    [][/\ (/\ hdlc.h.in_frame /\ hdlc.h.in_escape
           /\ hdlc'.fed = <<ppp_flag_byte>>)
          => /\ hdlc'.h.sent = hdlc.h.sent
             /\ ~hdlc'.h.in_frame
       /\ (/\ ~hdlc.h.in_frame
           /\ Len(hdlc'.fed) = 1 /\ hdlc'.fed[1] # ppp_flag_byte)
          => /\ hdlc'.h.sent = hdlc.h.sent
             /\ ~hdlc'.h.in_frame
      ]_vars

\* a whole frame body with a good FCS, then the escape code, then the flag:
\* nothing was delivered
C16_Witness ==
    /\ hdlc.framed /\ hdlc.pos = Len(hdlc.wire) - 1
    /\ Len(hdlc.P) = 2 /\ hdlc.noise = 2
    /\ hdlc.fed = <<ppp_flag_byte>>
    /\ hdlc.h.diag = <<"Frame from modem ended with escape code">>
    /\ hdlc.h.sent = <<>>
    /\ ~hdlc.h.in_frame

\* the octets between the flags, with the byte stuffing undone
RECURSIVE Unstuffed(_)
Unstuffed(bs) ==
    IF bs = <<>> THEN <<>>
    ELSE IF Head(bs) = ppp_escape_code /\ Len(bs) >= 2
         THEN <<Xor(bs[2], 32)>> \o Unstuffed(Tail(Tail(bs)))
    ELSE <<Head(bs)>> \o Unstuffed(Tail(bs))

\* every escape code is followed by a stuffed escape code or flag
RECURSIVE WellStuffed(_)
WellStuffed(bs) ==
    IF bs = <<>> THEN TRUE
    ELSE IF Head(bs) = ppp_flag_byte THEN FALSE
    ELSE IF Head(bs) = ppp_escape_code
         THEN /\ Len(bs) >= 2
              /\ Xor(bs[2], 32) \in {ppp_escape_code, ppp_flag_byte}
              /\ WellStuffed(Tail(Tail(bs)))
    ELSE WellStuffed(Tail(bs))

\* C17: for every payload P the sender writes one flag, the byte-stuffed
\* FF 03, P, fcs_lo, fcs_hi (escape code and flag replaced by the escape
\* code and the octet XOR 0x20, in the FCS too) and one flag; the FCS-16
\* over the unstuffed octets is 0xf0b8; the flag occurs only first and
\* last; the length is at most 2*(len(P)+4)+2
C17_SenderFrame ==
    hdlc.framed =>
        LET w == hdlc.wire
            inner == SubSeq(w, 2, Len(w) - 1)
            u == Unstuffed(inner)
        IN  /\ Len(w) >= 2
            /\ w[1] = ppp_flag_byte /\ w[Len(w)] = ppp_flag_byte
            /\ WellStuffed(inner)
            /\ Len(u) = Len(hdlc.P) + 4
            /\ SubSeq(u, 1, Len(hdlc.P) + 2) = <<255, 3>> \o hdlc.P
            /\ fcs16_all(FCS16_INIT, u) = FCS16_GOOD
            /\ Len(w) <= 2 * (Len(hdlc.P) + 4) + 2

\* a payload with the flag in it whose FCS holds the flag octet too
C17_Witness ==
    /\ hdlc.framed
    /\ hdlc.P = <<0, ppp_escape_code>>
    /\ hdlc.wire = <<126, 255, 3, 0, 125, 93, 10, 125, 94, 126>>

\* ---- the tag codec -----------------------------------------------------
\* the values a TagSet holds for a type, in order
ValuesOf(tags, t) == IF t \in DOMAIN tags THEN tags[t] ELSE <<>>

\* the same (type, value) pairs, duplicates in the same order
SameTags(a, b) ==
    \A t \in DOMAIN a \cup DOMAIN b : ValuesOf(a, t) = ValuesOf(b, t)

\* C18 as stated: for every TagSet T over 16-bit tag types
\* payload_to_tags(tags_to_payload(T)) holds the (type, value) pairs of T,
\* duplicates of a type in their order, zero-length values included
C18_RoundTripAnyType ==
    tagio.decoded => ~tagio.err /\ SameTags(tagio.tags, tagio.T)

\* C18, amended: the same for every TagSet T that holds no End-Of-List tag
C18_RoundTrip ==
    (tagio.decoded /\ tts.End_Of_List \notin DOMAIN tagio.T)
        => ~tagio.err /\ SameTags(tagio.tags, tagio.T)

\* two types, one of them twice, a zero-length value first
C18_Witness ==
    /\ tagio.decoded
    /\ DOMAIN tagio.T = {tts.Service_Name, tts.Host_Uniq}
    /\ tagio.T[tts.Host_Uniq] = << <<>>, <<98, 0>> >>
    /\ tagio.tags = tagio.T

\* ---- what ends a session -----------------------------------------------
\* the callback removed session i from the table
Removes(l, i) == \E k \in DOMAIN l : l[k].ev = "del" /\ l[k].sid = i

\* a PADR that read_discovery hands to handle_padr and that selects a
\* service which is not IDLE
IsTakeover(ev, s) ==
    /\ GoodPadr(ev)
    /\ s = FirstOf(Candidates(NameOf(ev.fr)))
    /\ svc[s].state # IDLE

\* a read from the modem of service s that returned no octets
IsModemEof(ev, s) ==
    ev.kind = "modem" /\ ev.s = s /\ ev.fr.payload.len = 0

\* C19: a session-table entry is removed only by a received PADT that
\* carries its session id, by the takeover of its service while a PADR is
\* handled, by close_session after a zero-byte modem read of its service,
\* or by shutdown; no other frame, modem read or dropped write removes one
C19_RemovedOnlyBy ==
    [][\A i \in DOMAIN sessions :
          (i \notin DOMAIN sessions' \/ Removes(log', i))
          => \/ IsPadt(event') /\ event'.fr.session_id = i
             \/ IsTakeover(event', sessions[i]) /\ svc[sessions[i]].session_id = i
             \/ IsModemEof(event', sessions[i]) /\ svc[sessions[i]].session_id = i
             \/ event'.kind = "shutdown"
      ]_vars

\* a takeover removed one entry and the table still holds another one
C19_Witness ==
    /\ GoodPadr(event)
    /\ \E k \in LogIdx : log[k].ev = "del" /\ log[k].sid \notin DOMAIN sessions
    /\ Cardinality(DOMAIN sessions) >= 2

\* ---- the modem goes away -----------------------------------------------
\* the PADT of close_session after an empty modem read
ModemPadt(peer, sid) ==
    SendEv("discovery", peer, CODE_PADT, sid,
           [t \in {tts.AC_System_Error} |-> <<"Modem disconnected">>],
           NoPayload, "sent")

\* payload of a session is carried on, to the modem or to the peer
Forwards(e, s) ==
    \/ e.ev = "write" /\ e.s = s
    \/ e.ev = "send" /\ e.sock = "session" /\ e.sid = svc[s].session_id

\* C20: a read from the modem of a connected service that returns no
\* octets sends exactly one PADT, to the bound peer with the bound session
\* id and AC-System-Error "Modem disconnected", removes that session id
\* from the table, unregisters and closes the descriptor and leaves the
\* service IDLE without binding; and a callback carries payload on only for
\* a service whose session is in the table, so none for that session after
\* the read
C20_ModemEof ==
    [][\A s \in SvcIds :
          /\ (/\ loop = "running"
              /\ IsModemEof(event', s)
              /\ svc[s].state = CONNECTED)
             => /\ exc' = "none"
                /\ Sends(log') = <<ModemPadt(svc[s].peer, svc[s].session_id)>>
                /\ svc[s].session_id \in DOMAIN sessions
                /\ sessions' = DictDel(sessions, svc[s].session_id)
                /\ Released(svc'[s])
                /\ \A k \in DOMAIN log' : ~Forwards(log'[k], s)
                /\ \A o \in SvcIds \ {s} : svc'[o] = svc[o]
          /\ (\E k \in DOMAIN log' : Forwards(log'[k], s))
             => /\ svc[s].session_id \in DOMAIN sessions
                /\ sessions[svc[s].session_id] = s
      ]_vars

\* the modem of a session went away while the other service has a session
C20_Witness ==
    /\ event.kind = "modem" /\ event.fr.payload.len = 0
    /\ Len(log) >= 1 /\ log[1].ev = "del"
    /\ \E p \in Peers : Sends(log) = <<ModemPadt(p, log[1].sid)>>
    /\ log[1].sid \notin DOMAIN sessions
    /\ Released(svc[event.s])
    /\ DOMAIN sessions # {}

\* ---- shutdown ----------------------------------------------------------
\* the PADT of close_session in the finally block
ShutdownPadt(peer, sid) ==
    SendEv("discovery", peer, CODE_PADT, sid,
           [t \in {tts.AC_System_Error} |-> <<SHUTDOWN_MESSAGE>>],
           NoPayload, "sent")

\* C21: on shutdown exactly one PADT is sent for every session of the
\* table, to the peer of that session with its session id and an
\* AC-System-Error tag that carries the shutdown message; nothing else is
\* sent, and the table is empty afterwards
C21_ShutdownPadt ==
    [][event'.kind = "shutdown"
       => /\ sessions' = <<>>
          /\ Len(Sends(log')) = Cardinality(DOMAIN sessions)
          /\ \A i \in DOMAIN sessions :
                /\ Cardinality({k \in DOMAIN log' :
                                   log'[k].ev = "send" /\ log'[k].sid = i}) = 1
                /\ \E k \in DOMAIN log' :
                      log'[k] = ShutdownPadt(svc[sessions[i]].peer, i)
      ]_vars

\* a shutdown with two sessions, of two peers
C21_Witness ==
    /\ event.kind = "shutdown"
    /\ sessions = <<>>
    /\ Len(Sends(log)) = 2
    /\ Sends(log)[1].peer # Sends(log)[2].peer
    /\ Sends(log)[1].sid # Sends(log)[2].sid

\* ---- order of the payloads ---------------------------------------------
\* a is b with some elements left out, the others in the order of b
RECURSIVE IsSubseq(_, _)
IsSubseq(a, b) ==
    IF a = <<>> THEN TRUE
    ELSE IF b = <<>> THEN FALSE
    ELSE IF Head(a) = Head(b) THEN IsSubseq(Tail(a), Tail(b))
    ELSE IsSubseq(a, Tail(b))

\* the frames a callback handed to the session socket
SessionSends(l) == SelectSeq(l, LAMBDA e : e.ev = "send" /\ e.sock = "session")

\* the frames a callback wrote to a serial device; a write that would
\* block writes nothing
Writes(l) == SelectSeq(l, LAMBDA e : e.ev = "write" /\ e.info = "written")

PayloadsOf(l) == [k \in DOMAIN l |-> l[k].payload]

DroppedWrite(l) == \E k \in DOMAIN l : l[k].ev = "write" /\ l[k].info = "dropped"

\* log.warning was called
Warned(l) == \E k \in DOMAIN l : l[k].ev = "warning"

\* what C23 says of the state: nothing written, nothing raised, the table
\* and the services as before, so that the next payload finds the session
\* as this one did
DropKeepsSession ==
    [][(event'.kind = "session" /\ DroppedWrite(log'))
       => /\ Writes(log') = <<>>
          /\ exc' = "none" /\ loop' = "running"
          /\ sessions' = sessions
          /\ svc' = svc
          /\ svc[sessions[event'.fr.session_id]].state = CONNECTED
      ]_vars

\* C23: when the one write of a framed payload to the serial device would
\* block, the payload is dropped and a warning is logged; the session stays
\* in the table and the service stays CONNECTED
C23_DroppedWriteWarns ==
    [][(event'.kind = "session" /\ DroppedWrite(log'))
       => /\ Warned(log')
          /\ Writes(log') = <<>>
          /\ exc' = "none" /\ loop' = "running"
          /\ sessions' = sessions
          /\ svc' = svc
          /\ svc[sessions[event'.fr.session_id]].state = CONNECTED
      ]_vars

\* ---- a send on a raw socket that would block ---------------------------
\* the callback handed a frame to a socket whose send would block
BlockedSend(l) == \E k \in DOMAIN l : l[k].ev = "send" /\ l[k].info = "blocked"

\* C24: when a send on a raw socket (send_session or send_discovery) would
\* block, that frame is dropped and processing goes on: no exception
\* leaves the callback and the event loop keeps running
C24_BlockedSendDrops ==
    [][(loop = "running" /\ event'.kind # "shutdown" /\ BlockedSend(log'))
       => exc' = "none" /\ loop' = "running"
      ]_vars

\* ---- the chat script ---------------------------------------------------
\* the callback carried a payload on, to a modem or to a peer
ForwardsAny(l) ==
    \E k \in DOMAIN l :
        l[k].ev = "write" \/ (l[k].ev = "send" /\ l[k].sock = "session")

\* the chat program ran for service s and exited with status zero
ChatSucceeded(l, s) ==
    \E k \in DOMAIN l : l[k].ev = "chat" /\ l[k].s = s /\ l[k].code = 0

\* C25: with a chat script configured nothing is forwarded for a new
\* session before the chat program has exited with status zero: the
\* callback that connects forwards nothing, a session id enters the table
\* for the serial service only in a callback whose chat exited zero, and
\* payload is carried on only for a service whose session id is in the
\* table; when chat exits non-zero the session id allocated for the
\* request is in no table entry and bound to no service
C25_ChatBeforeForwarding ==
    [][chatscript
       => /\ event'.kind = "discovery" => ~ForwardsAny(log')
          /\ \A i \in DOMAIN sessions' :
                (/\ services[sessions'[i]].cls = "SerialService"
                 /\ (i \notin DOMAIN sessions \/ sessions[i] # sessions'[i]
                     \/ \E k \in DOMAIN log' :
                           log'[k].ev = "alloc" /\ log'[k].sid = i))
                => ChatSucceeded(log', sessions'[i])
          /\ \A s \in SvcIds :
                (\E k \in DOMAIN log' : Forwards(log'[k], s))
                => /\ svc[s].session_id \in DOMAIN sessions
                   /\ sessions[svc[s].session_id] = s
          /\ ChatFailed(log')
             => \A k \in DOMAIN log' :
                   log'[k].ev = "alloc"
                   => /\ log'[k].sid \notin DOMAIN sessions'
                      /\ \A s \in SvcIds : svc'[s].session_id # log'[k].sid
                      /\ ~ForwardsAny(log')
      ]_vars

\* with a chat script configured, a payload of a session is written to the
\* modem
C25_Witness ==
    /\ chatscript
    /\ event.kind = "session"
    /\ Writes(log) # <<>>
    /\ services[sessions[event.fr.session_id]].cls = "SerialService"

\* ---- send_session ------------------------------------------------------
\* the frames of a read that fit the MTU
Fitting(frames) == SelectSeq(frames, LAMBDA f : f.len <= MTU)

\* what a read from the modem of service s hands to the session socket:
\* one session frame (code 0) per valid frame of the read that fits the
\* MTU, with the session id and the peer of s and the payload of the
\* frame, in order; nothing on the discovery socket; nothing raised
ModemFramesSent(s) ==
    /\ exc' = "none"
    /\ PayloadsOf(SessionSends(log')) = Fitting(event'.fr.frames)
    /\ \A k \in DOMAIN log' :
          log'[k].ev = "send"
          => log'[k] = SendEv("session", svc[s].peer, 0, svc[s].session_id,
                              NoTags, log'[k].payload, "sent")

\* C26 under an AC whose send_session takes what send_frame passes
SendSessionWithApi ==
    [][\A s \in SvcIds :
          (/\ send_api
           /\ event'.kind = "modem" /\ event'.s = s
           /\ event'.fr.frames # <<>>)
          => ModemFramesSent(s)
      ]_vars

\* C26: send_session sends nothing for a payload longer than the MTU and
\* otherwise exactly one session frame (ethertype 0x8864, code 0) with the
\* given session id and payload on the session socket, and the deframer's
\* frame-complete callback reaches it with the completed payload
C26_SendSession ==
    [][\A s \in SvcIds :
          (/\ event'.kind = "modem" /\ event'.s = s
           /\ event'.fr.frames # <<>>)
          => ModemFramesSent(s)
      ]_vars

\* ---- the state of the deframer -----------------------------------------
\* C27: in every state of the deframer, after any octets from its
\* construction on, in_escape implies in_frame
C27_EscapeImpliesInFrame == hdlc.h.in_escape => hdlc.h.in_frame

\* the deframer is given one octet b and calls the callback
Delivers(b) ==
    /\ hdlc'.fed = <<b>>
    /\ Len(hdlc'.h.sent) = Len(hdlc.h.sent) + 1

\* C28: the callback is called exactly when a flag arrives in a frame and
\* not after the escape code, with both header octets matched, frame_size
\* >= 4 and the running FCS equal to 0xf0b8, and it gets the first
\* frame_size - 2 octets (not the FCS); every flag in a frame and not after
\* the escape code starts a new frame (frame_size 0, header count 0, FCS
\* 0xffff), callback or not; a flag that follows a flag delivers nothing
\* and logs nothing
C28_CallbackExactlyWhen ==
    [][\A b \in 0..255 :
          hdlc'.fed = <<b>>
          => /\ Delivers(b)
                <=> /\ b = ppp_flag_byte
                    /\ hdlc.h.in_frame /\ ~hdlc.h.in_escape
                    /\ hdlc.h.hdlc_header_bytes_checked = Len(ppp_hdlc_header)
                    /\ hdlc.h.frame_size >= 4
                    /\ hdlc.h.fcs = FCS16_GOOD
             /\ Delivers(b)
                => /\ hdlc'.h.sent[Len(hdlc'.h.sent)]
                         = SubSeq(hdlc.h.out, 1, hdlc.h.frame_size - 2)
                   /\ SubSeq(hdlc'.h.sent, 1, Len(hdlc.h.sent)) = hdlc.h.sent
             /\ ~Delivers(b) => hdlc'.h.sent = hdlc.h.sent
             /\ (b = ppp_flag_byte /\ hdlc.h.in_frame /\ ~hdlc.h.in_escape)
                => /\ hdlc'.h.in_frame /\ ~hdlc'.h.in_escape
                   /\ hdlc'.h.frame_size = 0
                   /\ hdlc'.h.hdlc_header_bytes_checked = 0
                   /\ hdlc'.h.fcs = FCS16_INIT
             /\ (/\ b = ppp_flag_byte /\ hdlc.h.in_frame /\ ~hdlc.h.in_escape
                 /\ hdlc.h.frame_size = 0
                 /\ hdlc.h.hdlc_header_bytes_checked = 0)
                => /\ hdlc'.h.sent = hdlc.h.sent
                   /\ hdlc'.h.diag = hdlc.h.diag
      ]_vars

\* the closing flag of a frame, given alone, delivered the payload without
\* its FCS and started the next frame
C28_Witness ==
    /\ hdlc.fed = <<ppp_flag_byte>>
    /\ hdlc.pos = Len(hdlc.wire) /\ Len(hdlc.P) = 2
    /\ hdlc.h.sent = <<hdlc.P>>
    /\ hdlc.h.in_frame /\ hdlc.h.frame_size = 0 /\ hdlc.h.fcs = FCS16_INIT

\* the deframer is in a frame, past the header, and its buffer is full
BufferFull(h) ==
    /\ h.in_frame
    /\ h.hdlc_header_bytes_checked = Len(ppp_hdlc_header)
    /\ h.frame_size = HdlcOutSize

\* b is taken as an octet of the frame body: not the flag, and the escape
\* code only after an escape code
BodyOctet(h, b) ==
    /\ b # ppp_flag_byte
    /\ (b = ppp_escape_code => h.in_escape)

\* C29: the deframer never writes outside its output buffer: frame_size
\* never exceeds the length of the buffer; a body octet that arrives with
\* the buffer full abandons the frame (out of frame, no callback, the
\* diagnostic "too long"), and the next flag starts a new frame without a
\* callback for the abandoned one
C29_BufferBound ==
    [][/\ hdlc.h.frame_size <= HdlcOutSize
       /\ hdlc'.h.frame_size <= HdlcOutSize
       /\ Len(hdlc'.h.out) <= HdlcOutSize
       /\ \A b \in 0..255 :
             hdlc'.fed = <<b>>
             => /\ (BufferFull(hdlc.h) /\ BodyOctet(hdlc.h, b))
                   => /\ ~hdlc'.h.in_frame
                      /\ hdlc'.h.sent = hdlc.h.sent
                      /\ hdlc'.h.diag
                            = Append(hdlc.h.diag, "Frame from modem is too long")
                /\ (~hdlc.h.in_frame /\ b = ppp_flag_byte)
                   => /\ hdlc'.h.in_frame /\ hdlc'.h.frame_size = 0
                      /\ hdlc'.h.sent = hdlc.h.sent
      ]_vars

\* a frame longer than the buffer was given whole: it was abandoned, nothing
\* was delivered, and its closing flag started a new frame
C29_Witness ==
    /\ hdlc.framed /\ hdlc.pos = Len(hdlc.wire)
    /\ Len(hdlc.P) + 2 > HdlcOutSize
    /\ hdlc.noise = 0
    /\ hdlc.h.diag = <<"Frame from modem is too long">>
    /\ hdlc.h.sent = <<>>
    /\ hdlc.h.in_frame /\ hdlc.h.frame_size = 0

\* ---- the receive buffer ------------------------------------------------
\* C30: on either socket a frame whose declared payload length exceeds the
\* octets received behind the header is dropped, and the octets parsed as
\* tags or delivered to a service are the first payload_length octets of
\* the frame just received, never octets an earlier frame left in the
\* buffer
C30_PayloadOfThisFrame ==
    rx.sock # "none"
    => /\ rx.payload_length > Len(rx.data) => rx.dropped
       /\ ~rx.dropped => rx.payload = SubSeq(rx.data, 1, rx.payload_length)

\* ---- discovery frames that are dropped ---------------------------------
HasRaw(fr) == "raw" \in DOMAIN fr

\* the lists of at most two tags the payloads of the model are made of
RawTagLists ==
    UNION {[1..n -> {<<tts.Host_Uniq, <<97>>>>, <<tts.Host_Uniq, <<>>>>}] :
              n \in 0..2}

\* raw is the encoding of the tags of pairs, none of them End-Of-List,
\* followed by nothing or by an End-Of-List tag of length zero and anything
EncodesUpToEnd(raw, pairs) ==
    LET head == join_tags(pairs)
        rest == SubSeq(raw, Len(head) + 1, Len(raw))
    IN  /\ Len(head) <= Len(raw)
        /\ SubSeq(raw, 1, Len(head)) = head
        /\ \/ rest = <<>>
           \/ /\ Len(rest) >= Len(EndOfListOctets)
              /\ SubSeq(rest, 1, Len(EndOfListOctets)) = EndOfListOctets

\* the tag dict of a list of tags: per type, its values in list order
DictOf(pairs) ==
    [t \in {pairs[k][1] : k \in DOMAIN pairs} |->
        LET ks == {k \in DOMAIN pairs : pairs[k][1] = t}
            nth(n) == CHOOSE k \in ks :
                         Cardinality({j \in ks : j < k}) = n - 1
        IN  [n \in 1..Cardinality(ks) |-> pairs[nth(n)][2]]]

\* a discovery frame of the kinds the handler drops
BadDiscovery(fr) ==
    \/ fr.short
    \/ fr.etype # PPPOE_DISCOVERY
    \/ fr.vt # VERTYPE
    \/ ~fr.parses
    \/ fr.code \in {CODE_PADI, CODE_PADR} /\ fr.session_id # 0
    \/ fr.code = CODE_PADR /\ fr.dest # AC_MAC
    \/ fr.code = CODE_PADT /\ fr.session_id = 0
    \/ fr.code \in {CODE_PADI, CODE_PADR} /\ ~OneName(fr)
    \/ fr.code \notin {CODE_PADI, CODE_PADR, CODE_PADT}

\* C31: a discovery frame that is short, has a wrong ethertype or ver_type,
\* has a tag list that does not parse, is a PADI or PADR with a non-zero
\* session id, a PADR not addressed to the AC, a PADT with session id 0, a
\* PADI or PADR without exactly one UTF-8 Service-Name, or has another code,
\* is dropped: nothing is sent and the table, the services and the
\* generator stay as they are; a tag list parses exactly when it is a list
\* of whole tags that ends with the payload or with an End-Of-List of
\* length zero, whatever follows that, and its tags are those before the
\* End-Of-List
C31_MalformedDropped ==
    [][(loop = "running" /\ event'.kind = "discovery")
       => /\ BadDiscovery(event'.fr)
             => /\ log' = <<>>
                /\ sessions' = sessions
                /\ svc' = svc
                /\ session_number' = session_number
                /\ loop' = "running" /\ exc' = "none"
          /\ HasRaw(event'.fr)
             => /\ event'.fr.parses
                   <=> \E pairs \in RawTagLists :
                          EncodesUpToEnd(event'.fr.raw, pairs)
                /\ \A pairs \in RawTagLists :
                      EncodesUpToEnd(event'.fr.raw, pairs)
                      => event'.fr.tags = DictOf(pairs)
      ]_vars

\* a PADT for a session of the table whose tag list is cut within a value
\* was dropped and the session is still there
C31_Witness ==
    /\ event.kind = "discovery" /\ HasRaw(event.fr)
    /\ event.fr.code = CODE_PADT
    /\ event.fr.raw = HostUniqOctets \o tag_header_pack(tts.Host_Uniq, 2)
                         \o <<97>>
    /\ ~event.fr.parses
    /\ event.fr.session_id \in DOMAIN sessions
    /\ log = <<>> /\ loop = "running"

\* a PADT whose tag list has octets after the End-Of-List tag ended its
\* session
C31_EndOfListWitness ==
    /\ event.kind = "discovery" /\ HasRaw(event.fr)
    /\ event.fr.code = CODE_PADT
    /\ event.fr.raw = HostUniqOctets \o EndOfListOctets \o <<1, 3, 0, 9>>
    /\ event.fr.parses
    /\ event.fr.session_id \notin DOMAIN sessions
    /\ HasEv(log, "del")

\* ---- the choice of the service -----------------------------------------
\* the candidates of a PADR that are IDLE as the handler starts
IdleCandidates(fr) ==
    {s \in Candidates(NameOf(fr)) : svc[s].state = IDLE}

\* the services the handler called connect on
Connected(l) == {l[k].s : k \in {j \in DOMAIN l : l[j].ev = "connect"}}

\* what the handler does: the first candidate in configuration order is
\* chosen, whatever its state
FirstCandidateChosen ==
    [][(loop = "running" /\ GoodPadr(event'))
       => Connected(log') \subseteq {FirstOf(Candidates(NameOf(event'.fr)))}
      ]_vars

\* C32: a PADR with at least one IDLE candidate chooses the first IDLE
\* candidate in configuration order: no CONNECTED service is pre-empted and
\* no PADT is sent
C32_PrefersIdle ==
    [][(loop = "running" /\ GoodPadr(event')
        /\ IdleCandidates(event'.fr) # {})
       => /\ Connected(log') = {FirstOf(IdleCandidates(event'.fr))}
          /\ \A k \in DOMAIN log' :
                ~(log'[k].ev = "send" /\ log'[k].code = CODE_PADT)
          /\ \A s \in SvcIds :
                svc[s].state = CONNECTED
                => /\ svc'[s].state = CONNECTED
                   /\ svc'[s].session_id = svc[s].session_id
                   /\ svc[s].session_id \in DOMAIN sessions'
      ]_vars

\* ---- the assertions of the callbacks -----------------------------------
\* assert self._f and self.ac and self.peer and self.session_id
ModemAssertion(s) ==
    svc[s].f /\ svc[s].ac /\ svc[s].peer # None /\ svc[s].session_id # 0

\* the session frame of the event is handed to process_session_payload of
\* SerialService s
DeliveredTo(ev, s) ==
    /\ ev.kind = "session"
    /\ ~ev.fr.short /\ ev.fr.etype = PPPOE_SESSION /\ ev.fr.vt = VERTYPE
    /\ ev.fr.code = 0 /\ ev.fr.fits
    /\ ev.fr.session_id \in DOMAIN sessions
    /\ sessions[ev.fr.session_id] = s
    /\ services[s].cls = "SerialService"

\* the assertions as the callback is entered
AssertionsHold ==
    [][loop = "running"
       => \A s \in SvcIds :
             /\ (event'.kind = "modem" /\ event'.s = s) => ModemAssertion(s)
             /\ DeliveredTo(event', s) => svc[s].f
      ]_vars

\* C33: whenever the event loop calls a ready callback its assertions hold:
\* at every call of read_from_modem the service has an open descriptor and
\* a binding (ac, peer, session_id), at every call of
\* process_session_payload the descriptor is open, for every batch of one
\* select(), also when an earlier callback of the batch (PADT, takeover
\* PADR, modem EOF) disconnected the service
C33_AssertionsInBatch ==
    [][loop = "running"
       => /\ \A s \in SvcIds :
                /\ (event'.kind = "modem" /\ event'.s = s)
                      => ModemAssertion(s)
                /\ DeliveredTo(event', s) => svc[s].f
          /\ exc' # "AssertionError"
      ]_vars

\* ---- the session table between callbacks ------------------------------
\* C34: between event handlers every entry sid -> service of the session
\* table has sid within 0x0001..0xffff and a configured service that is
\* CONNECTED with session_id = sid, and the table has no more entries than
\* there are configured services (so the walk of the session number
\* generator finds a free number)
C34_TableEntries ==
    loop = "running"
    => /\ \A i \in DOMAIN sessions :
             /\ i >= SESSION_MIN /\ i <= SESSION_MAX
             /\ sessions[i] \in SvcIds
             /\ svc[sessions[i]].state = CONNECTED
             /\ svc[sessions[i]].session_id = i
       /\ Cardinality(DOMAIN sessions) <= Cardinality(SvcIds)
       /\ \E i \in SESSION_MIN..SESSION_MIN + Cardinality(SvcIds) :
             i \notin DOMAIN sessions

\* every configured service holds a session, one of them the number the
\* generator found after the wrap
C34_Witness ==
    /\ loop = "running"
    /\ Cardinality(DOMAIN sessions) = Cardinality(SvcIds)
    /\ SESSION_MIN \in DOMAIN sessions
    /\ \A s \in SvcIds : svc[s].state = CONNECTED

\* ---- the deframer and the sessions -------------------------------------
\* the frames the last callback handed to the session socket
SessionSent(l) ==
    SelectSeq(l, LAMBDA e : e.ev = "send" /\ e.sock = "session")

C35_DeliveredWitness ==
    /\ event.kind = "modem"
    /\ ~hdlc.dirty /\ hdlc.pos = Len(hdlc.wire)
    /\ svc[LineSvc].session_id = SESSION_MIN
    /\ svc[LineSvc].peer = P2
    /\ Len(SessionSent(log)) = 1
    /\ SessionSent(log)[1].peer = P2
    /\ SessionSent(log)[1].payload.data = <<ppp_flag_byte, 66>>

\* ---- frames and addresses ----------------------------------------------
\* C36: inbound frames are attributed to a session by the session id alone:
\* a PADT with a session id of the table ends that session and a session
\* frame with a session id of the table is given to the bound service,
\* whatever the source address (the bound peer or not) and the destination
\* address (the AC or not) of the frame; a PADI is answered whatever its
\* destination; only a PADR for another address than the AC's is dropped
C36_BySessionIdAlone ==
    [][loop = "running"
       => /\ (/\ IsPadt(event')
              /\ event'.fr.session_id # 0
              /\ event'.fr.session_id \in DOMAIN sessions)
             => LET sid == event'.fr.session_id
                    s == sessions[sid]
                IN  /\ Released(svc'[s])
                    /\ sessions' = DictDel(sessions, sid)
                    /\ Sends(log') = <<>>
                    /\ \A t \in SvcIds \ {s} : svc'[t] = svc[t]
          /\ (/\ IsSessionFrame(event')
              /\ event'.fr.session_id \in DOMAIN sessions)
             => LET s == sessions[event'.fr.session_id]
                IN  /\ sessions' = sessions /\ svc' = svc
                    /\ Sends(log') = <<>>
                    /\ loop' = "running"
                    /\ IF services[s].cls = "SerialService"
                       THEN /\ Len(log') = 1
                            /\ log'[1].ev = "write" /\ log'[1].s = s
                            /\ log'[1].payload = event'.fr.payload
                       ELSE log' = <<>>
          /\ (/\ OneNamePadi(event')
              /\ NameOf(event'.fr) \in {""} \cup available_services)
             => /\ Len(log') = 1
                /\ IsPadoFor(log'[1], event'.fr)
          /\ (/\ event'.kind = "discovery"
              /\ Dispatched(event'.fr, CODE_PADR)
              /\ event'.fr.dest # AC_MAC)
             => /\ log' = <<>>
                /\ sessions' = sessions /\ svc' = svc
                /\ session_number' = session_number
      ]_vars

\* a PADT from a station that is not the peer of the session, sent to an
\* address that is not the AC's, ended the session
C36_Witness ==
    /\ IsPadt(event)
    /\ event.fr.src = P3 /\ event.fr.dest = OTHER_MAC
    /\ HasEv(log, "del") /\ HasEv(log, "disconnect")
    /\ event.fr.session_id \notin DOMAIN sessions
    /\ loop = "running"

\* a session frame from such a station was written to the modem of the
\* session's service
C36_SessionWitness ==
    /\ IsSessionFrame(event)
    /\ event.fr.src = P3 /\ event.fr.dest = OTHER_MAC
    /\ Len(log) = 1 /\ log[1].ev = "write" /\ log[1].info = "written"
    /\ svc[log[1].s].peer \notin {P3, None}

=============================================================================
